---------------------------- MODULE Spec2Model ----------------------------
(***************************************************************************)
(* Model of the compliance call tool's server (server/server.js): the      *)
(* Service Matrix direct-match resolver (norm, scoreMatch,                 *)
(* extractMatrixSteps, findDirectMatrixAnswer), the /ask handler, the     *)
(* document loader, and the reviews sheet of lib/googleSheetsReviews.js.   *)
(*                                                                         *)
(* JavaScript strings are TLA+ strings; a character is a string of length  *)
(* one.  A JavaScript array is a record [kind |-> "array", cells |-> seq]; *)
(* index i of the source (0-based) is index i+1 of the sequence.           *)
(***************************************************************************)
EXTENDS Integers, Sequences, FiniteSets, TLC

VARIABLES
    callPc,          \* position of the pure-function harness: "in" or "out"
    callArgs,        \* the arguments the harness passes
    callRet,         \* the value the call returned
    AI_PROVIDER,     \* the configured provider name
    API_KEYS,        \* the providers whose API key is configured
    DOCUMENT_CACHE,  \* [keys, matrix]: the keys set and the value under "matrix"
    LAST_LOAD,       \* the number of document loads completed
    DOCS_LOADING,    \* the loader's flag
    loads,           \* the loadDocuments executions past their guards
    asks,            \* the /ask requests received
    reloads,         \* the /admin/reload-docs requests received
    reviewSheet,     \* rows 2 and on of the reviews tab of the spreadsheet
    upserts          \* the upsertReview calls made

harnessVars == <<callPc, callArgs, callRet>>
serverVars ==
    <<AI_PROVIDER, API_KEYS, DOCUMENT_CACHE, LAST_LOAD, DOCS_LOADING, loads, asks, reloads>>
reviewVars == <<reviewSheet, upserts>>
vars == <<harnessVars, serverVars, reviewVars>>

\* no review call has been made
ReviewsIdle == reviewSheet = <<>> /\ upserts = <<>>

-----------------------------------------------------------------------------
(* String primitives of the JavaScript runtime used by the resolver.       *)

UpperCaseLetters == "ABCDEFGHIJKLMNOPQRSTUVWXYZ"
LowerCaseLetters == "abcdefghijklmnopqrstuvwxyz"
DigitChars == "0123456789"

CharAt(s, i) == SubSeq(s, i, i)
CharsOf(s) == {CharAt(s, i) : i \in 1..Len(s)}

UpperSet == CharsOf(UpperCaseLetters)
LowerSet == CharsOf(LowerCaseLetters)
DigitSet == CharsOf(DigitChars)

\* \s of the regular expressions and the characters trim() removes
IsSpaceChar(c) == c \in {" ", "\t", "\n"}
\* \p{L} or \p{N}
IsLetterOrDigit(c) == c \in UpperSet \cup LowerSet \cup DigitSet

toLowerChar(c) ==
    IF c \in UpperSet
    THEN CharAt(LowerCaseLetters, CHOOSE i \in 1..Len(UpperCaseLetters) : CharAt(UpperCaseLetters, i) = c)
    ELSE c

RECURSIVE toLowerCase(_)
toLowerCase(s) ==
    IF s = "" THEN "" ELSE toLowerChar(Head(s)) \o toLowerCase(Tail(s))

RECURSIVE trimStart(_)
trimStart(s) ==
    IF s # "" /\ IsSpaceChar(Head(s)) THEN trimStart(Tail(s)) ELSE s

RECURSIVE trimEnd(_)
trimEnd(s) ==
    IF s # "" /\ IsSpaceChar(CharAt(s, Len(s)))
    THEN trimEnd(SubSeq(s, 1, Len(s) - 1))
    ELSE s

trim(s) == trimEnd(trimStart(s))

\* .replace(/\s+/g, " ")
RECURSIVE collapseWhitespace(_)
collapseWhitespace(s) ==
    IF s = "" THEN ""
    ELSE IF IsSpaceChar(Head(s)) THEN " " \o collapseWhitespace(trimStart(Tail(s)))
    ELSE Head(s) \o collapseWhitespace(Tail(s))

\* .replace(/[^\p{L}\p{N}\s]/gu, "")
RECURSIVE stripPunctuation(_)
stripPunctuation(s) ==
    IF s = "" THEN ""
    ELSE IF IsLetterOrDigit(Head(s)) \/ IsSpaceChar(Head(s))
         THEN Head(s) \o stripPunctuation(Tail(s))
         ELSE stripPunctuation(Tail(s))

\* String.prototype.includes
Includes(s, t) ==
    \E i \in 0..(Len(s) - Len(t)) : SubSeq(s, i + 1, i + Len(t)) = t

\* s.split(" ").filter(Boolean): the maximal runs of characters other than " "
RECURSIVE splitTokens(_)
splitTokens(s) ==
    IF s = "" THEN <<>>
    ELSE IF Head(s) = " " THEN splitTokens(Tail(s))
    ELSE LET stops == {i \in 1..Len(s) : CharAt(s, i) = " "}
             n == IF stops = {} THEN Len(s) + 1
                  ELSE CHOOSE i \in stops : \A j \in stops : i <= j
         IN <<SubSeq(s, 1, n - 1)>> \o splitTokens(SubSeq(s, n, Len(s)))

\* Array.prototype.join
RECURSIVE joinWith(_, _)
joinWith(parts, sep) ==
    IF Len(parts) = 0 THEN ""
    ELSE IF Len(parts) = 1 THEN parts[1]
    ELSE parts[1] \o sep \o joinWith(Tail(parts), sep)

Min(a, b) == IF a < b THEN a ELSE b
Max(a, b) == IF a > b THEN a ELSE b

-----------------------------------------------------------------------------
(* Text normalization (server.js 462-490).  The value passed is the string *)
(* String(s ?? "") of the source: an undefined or null cell is "".         *)

norm(s) == stripPunctuation(collapseWhitespace(trim(toLowerCase(s))))

\* a string among the values a caller can pass
StringValue(s) == [kind |-> "string", text |-> s]

\* String(v ?? "")
stringOrEmpty(v) == IF v.kind \in {"null", "undefined"} THEN "" ELSE v.text

\* mutant: "none" is not among the forms compared
isNoValueWithoutNone(v) ==
    LET s == norm(v)
    IN s \in {"", "no", "n", "na", "n a", "n/a", "0", "false"}

isNoValue(v) ==
    LET s == norm(v)
    IN \/ s = ""
       \/ s = "no"
       \/ s = "n"
       \/ s = "none"
       \/ s = "na"
       \/ s = "n a"
       \/ s = "n/a"
       \/ s = "0"
       \/ s = "false"

\* mutant: the fall-through returns the normalized string
normalizeYesNoNormalized(v) ==
    LET s == norm(v)
    IN IF s \in {"y", "yes", "true", "1"} THEN "Yes"
       ELSE IF s \in {"n", "no", "false", "0"} THEN "No"
       ELSE s

normalizeYesNo(v) ==
    LET s == norm(v)
    IN IF s \in {"y", "yes", "true", "1"} THEN "Yes"
       ELSE IF s \in {"n", "no", "false", "0"} THEN "No"
       ELSE trim(v)

-----------------------------------------------------------------------------
(* Row scoring (server.js 585-602).                                        *)

SCORE_EXACT == 100
SCORE_SUBSTRING == 85
SCORE_TOKEN_CAP == 80
SCORE_TOKEN_BASE == 45
SCORE_TOKEN_STEP == 10

\* the number of query tokens that are in the set of the cell's tokens
tokenOverlap(qTokens, cTokens) ==
    LET cSet == {cTokens[i] : i \in 1..Len(cTokens)}
    IN Cardinality({i \in 1..Len(qTokens) : qTokens[i] \in cSet})

\* mutant: the two-token boundary taken strictly
minOverlapForStrict(qTokens) == IF Len(qTokens) < 2 THEN 1 ELSE 2

minOverlapFor(qTokens) == IF Len(qTokens) <= 2 THEN 1 ELSE 2

\* mutant: the cap of the token tier left out
tokenTierScoreUncapped(overlap) == SCORE_TOKEN_BASE + overlap * SCORE_TOKEN_STEP

tokenTierScore(overlap) ==
    Min(SCORE_TOKEN_CAP, SCORE_TOKEN_BASE + overlap * SCORE_TOKEN_STEP)

scoreMatch(cellNorm, qNorm) ==
    IF cellNorm = "" \/ qNorm = "" THEN 0
    ELSE IF cellNorm = qNorm THEN SCORE_EXACT
    ELSE IF Includes(cellNorm, qNorm) \/ Includes(qNorm, cellNorm) THEN SCORE_SUBSTRING
    ELSE LET qTokens == splitTokens(qNorm)
             cTokens == splitTokens(cellNorm)
             overlap == tokenOverlap(qTokens, cTokens)
         IN IF Len(qTokens) = 0 \/ Len(cTokens) = 0 THEN 0
            ELSE IF overlap < minOverlapFor(qTokens) THEN 0
            ELSE tokenTierScore(overlap)

-----------------------------------------------------------------------------
(* Spreadsheet values.  A sheet, a row or the document is a value with a   *)
(* kind: "array" carries cells; "null" and "object" are the values a       *)
(* malformed document can hold in their place ("undefined" is what an      *)
(* index past the end reads).                                              *)

ArrayOf(cells) == [kind |-> "array", cells |-> cells]
NullValue == [kind |-> "null", cells |-> <<>>]
ObjectValue == [kind |-> "object", cells |-> <<>>]
UndefinedValue == [kind |-> "undefined", cells |-> <<>>]

\* mutant: the Array.isArray guards left out
ArrayIsArrayAlways(v) == TRUE

\* Array.isArray
ArrayIsArray(v) == v.kind = "array"

\* v.length of an array (0-based indices 0..length-1)
lengthOf(v) == Len(v.cells)

\* rows[i]: the row at 0-based index i, undefined past the end
rowAt(rows, i) ==
    IF i >= 0 /\ i < Len(rows.cells) THEN rows.cells[i + 1] ELSE UndefinedValue

\* String(row[i] ?? ""): the cell at 0-based index i as a string
cellAt(row, i) ==
    IF i >= 0 /\ i < Len(row.cells) THEN row.cells[i + 1] ELSE ""

-----------------------------------------------------------------------------
(* Header detection and header map (server.js 492-514).                    *)

HEADER_MAX_SCAN == 40

rowIsHeader(row) ==
    LET joined == joinWith([i \in 1..Len(row.cells) |-> norm(row.cells[i])], " | ")
    IN \/ Includes(joined, "instructions")
       \/ Includes(joined, "concern")
       \/ Includes(joined, "issue")

RECURSIVE detectHeaderFrom(_, _, _)
detectHeaderFrom(rows, r, maxScan) ==
    IF r >= maxScan THEN -1
    ELSE LET row == rowAt(rows, r)
         IN IF ~ArrayIsArray(row) THEN detectHeaderFrom(rows, r + 1, maxScan)
            ELSE IF rowIsHeader(row) THEN r
            ELSE detectHeaderFrom(rows, r + 1, maxScan)

\* mutant: the scan runs over the whole sheet
detectHeaderRowIndexWholeSheet(rows) ==
    detectHeaderFrom(rows, 0, lengthOf(rows))

detectHeaderRowIndex(rows) ==
    detectHeaderFrom(rows, 0, Min(HEADER_MAX_SCAN, lengthOf(rows)))

EmptyMap == [x \in {} |-> 0]

\* mutant: a later duplicate label overrides the earlier one
headerMapSetLast(map, h, i) == [x \in (DOMAIN map) \cup {h} |-> IF x = h THEN i ELSE map[x]]

\* if (!map.has(h)) map.set(h, i)
headerMapSet(map, h, i) == IF h \in DOMAIN map THEN map ELSE map @@ (h :> i)

RECURSIVE buildHeaderMapFrom(_, _, _)
buildHeaderMapFrom(headerRow, i, map) ==
    IF i >= lengthOf(headerRow) THEN map
    ELSE LET h == norm(cellAt(headerRow, i))
         IN IF h = "" THEN buildHeaderMapFrom(headerRow, i + 1, map)
            ELSE buildHeaderMapFrom(headerRow, i + 1, headerMapSet(map, h, i))

buildHeaderMap(headerRow) ==
    IF ~ArrayIsArray(headerRow) THEN EmptyMap
    ELSE buildHeaderMapFrom(headerRow, 0, EmptyMap)

-----------------------------------------------------------------------------
(* Answer extraction (server.js 519-559).  The result is null (NoAnswer)   *)
(* or a non-empty string.                                                  *)

NoAnswer == [found |-> FALSE, text |-> ""]
AnswerText(t) == [found |-> TRUE, text |-> t]

preferredHeaders == <<"slack", "refund queue", "create a ticket", "supervisor">>

displayLabel(h) ==
    IF h = "refund queue" THEN "Refund Queue"
    ELSE IF h = "create a ticket" THEN "Create a Ticket"
    ELSE IF h = "supervisor" THEN "Supervisor"
    ELSE "Slack"

\* mutant: every non-empty flag is shown, a "No" included
RECURSIVE collectExtrasShowingNo(_, _, _)
collectExtrasShowingNo(row, headerMap, k) ==
    IF k > Len(preferredHeaders) THEN <<>>
    ELSE LET h == preferredHeaders[k]
             rest == collectExtrasShowingNo(row, headerMap, k + 1)
         IN IF h \notin DOMAIN headerMap THEN rest
            ELSE LET yn == normalizeYesNo(cellAt(row, headerMap[h]))
                 IN IF yn = "" THEN rest
                    ELSE <<displayLabel(h) \o ": " \o yn>> \o rest

\* the body of the loop over preferredHeaders: extras after label k and on
RECURSIVE collectExtras(_, _, _)
collectExtras(row, headerMap, k) ==
    IF k > Len(preferredHeaders) THEN <<>>
    ELSE LET h == preferredHeaders[k]
             rest == collectExtras(row, headerMap, k + 1)
         IN IF h \notin DOMAIN headerMap THEN rest
            ELSE LET yn == normalizeYesNo(cellAt(row, headerMap[h]))
                     ynNorm == norm(yn)
                 IN IF yn = "" \/ isNoValue(yn) THEN rest
                    ELSE IF ynNorm = "no" \/ ynNorm = "n" THEN rest
                    ELSE <<displayLabel(h) \o ": " \o yn>> \o rest

\* mutant: base and extras separated by one line break
composeStepsOneBreak(base, extras) ==
    IF base = "" /\ Len(extras) = 0 THEN NoAnswer
    ELSE IF Len(extras) = 0 THEN AnswerText(base)
    ELSE IF base # "" THEN AnswerText(base \o "\n" \o joinWith(extras, "\n"))
    ELSE AnswerText(joinWith(extras, "\n"))

composeSteps(base, extras) ==
    IF base = "" /\ Len(extras) = 0 THEN NoAnswer
    ELSE IF Len(extras) = 0 THEN AnswerText(base)
    ELSE IF base # "" THEN AnswerText(base \o "\n\n" \o joinWith(extras, "\n"))
    ELSE AnswerText(joinWith(extras, "\n"))

extractMatrixSteps(rows, headerIndex, rowIndex) ==
    LET row == rowAt(rows, rowIndex)
    IN IF ~ArrayIsArray(row) THEN NoAnswer
       ELSE LET colC == trim(cellAt(row, 2))
                base == IF colC # "" /\ ~isNoValue(colC) THEN colC ELSE ""
                headerRow == IF headerIndex >= 0 THEN rowAt(rows, headerIndex) ELSE NullValue
                headerMap == buildHeaderMap(headerRow)
                extras == collectExtras(row, headerMap, 1)
            IN composeSteps(base, extras)

-----------------------------------------------------------------------------
(* Query variants (server.js 562-583).  The Set keeps insertion order; the *)
(* result is the sequence Array.from(variants).filter(Boolean).            *)

SeqRange(sq) == {sq[i] : i \in 1..Len(sq)}

\* mutant: the variants are kept in an array, pushed without a look-up
addVariantNoDedupe(variants, s) ==
    IF s = "" THEN variants ELSE Append(variants, norm(s))

\* add(s): s && variants.add(norm(s))
addVariant(variants, s) ==
    IF s = "" THEN variants
    ELSE IF norm(s) \in SeqRange(variants) THEN variants
    ELSE Append(variants, norm(s))

filterBoolean(sq) == SelectSeq(sq, LAMBDA x : x # "")

expandQueryVariants(qNorm) ==
    LET v0 == <<qNorm>>
        v1 == IF \/ Includes(qNorm, "double charged")
                 \/ Includes(qNorm, "charged twice")
                 \/ Includes(qNorm, "double charge")
              THEN addVariant(addVariant(addVariant(addVariant(v0,
                       "double charged"), "charged twice"), "duplicate charge"), "double charge")
              ELSE v0
        v2 == IF Includes(qNorm, "early departure")
              THEN addVariant(addVariant(v1,
                       "early departure after check in"), "early departure after check-in")
              ELSE v1
    IN filterBoolean(v2)

-----------------------------------------------------------------------------
(* Search (server.js 605-679).  The document is [kind, tabs]: kind is      *)
(* "object" for a mapping, whose tabs are its entries in Object.entries    *)
(* order, each [name, rows].  The scan record carries the best hit and     *)
(* what the invocation did: whether it expanded the question, how many     *)
(* tabs it entered, which rows it scored, and whether it threw.            *)

NoHit ==
    [found |-> FALSE, score |-> 0, sheetName |-> "", rowIndex |-> -1,
     colIndex |-> -1, matchedText |-> "", answer |-> ""]

\* reading a property of null or undefined throws a TypeError
PropertyAccessThrows(v) == v.kind \in {"null", "undefined"}

\* mutant: the loop over the variants leaves at the first positive score
RECURSIVE bestVariantScoreFirstPositive(_, _, _, _)
bestVariantScoreFirstPositive(cellNorm, queries, k, score) ==
    IF k > Len(queries) THEN score
    ELSE LET s2 == Max(score, scoreMatch(cellNorm, queries[k]))
         IN IF s2 > 0 THEN s2
            ELSE bestVariantScoreFirstPositive(cellNorm, queries, k + 1, s2)

\* the loop over the variants, leaving at 100
RECURSIVE bestVariantScore(_, _, _, _)
bestVariantScore(cellNorm, queries, k, score) ==
    IF k > Len(queries) THEN score
    ELSE LET s2 == Max(score, scoreMatch(cellNorm, queries[k]))
         IN IF s2 = 100 THEN s2
            ELSE bestVariantScore(cellNorm, queries, k + 1, s2)

\* mutant: a later hit of equal score replaces the best so far
keepBestOrEqual(bestHit, hit) ==
    IF ~bestHit.found \/ hit.score >= bestHit.score THEN hit ELSE bestHit

\* mutant: a hit below the caller's threshold is dropped by the search
keepBestAboveThreshold(bestHit, hit) ==
    IF hit.score < 70 THEN bestHit
    ELSE IF ~bestHit.found \/ hit.score > bestHit.score THEN hit ELSE bestHit

\* if (!bestHit || hit.score > bestHit.score) bestHit = hit
keepBest(bestHit, hit) ==
    IF ~bestHit.found \/ hit.score > bestHit.score THEN hit ELSE bestHit

\* mutant: the concern cell is tested as the answer and flag cells are
concernIsNoValue(cellNorm) == isNoValue(cellNorm)

\* if (!cellNorm) continue
concernIsEmpty(cellNorm) == cellNorm = ""

\* mutant: a row that scores 0 goes on to the extraction
scoreIsZeroNever(score) == FALSE

\* if (score === 0) continue
scoreIsZero(score) == score = 0

\* the body of the loop over the rows of one tab, for row r
scanRow(st, sheetName, t, rows, headerIndex, r) ==
    LET row == rowAt(rows, r)
    IN IF ~ArrayIsArray(row) THEN st
       ELSE IF PropertyAccessThrows(row) THEN [st EXCEPT !.status = "raised"]
       ELSE LET c == IF lengthOf(row) > 1 THEN 1 ELSE 0
                cellRaw == cellAt(row, c)
                cellNorm == norm(cellRaw)
            IN IF concernIsEmpty(cellNorm) THEN st
               ELSE LET score == bestVariantScore(cellNorm, st.queries, 1, 0)
                        st1 == [st EXCEPT !.rowsScored = @ \cup {<<t, r>>}]
                    IN IF scoreIsZero(score) THEN st1
                       ELSE LET steps == extractMatrixSteps(rows, headerIndex, r)
                            IN IF ~steps.found THEN st1
                               ELSE [st1 EXCEPT !.bestHit = keepBest(@,
                                        [found |-> TRUE,
                                         score |-> score,
                                         sheetName |-> sheetName,
                                         rowIndex |-> r,
                                         colIndex |-> c,
                                         matchedText |-> trim(cellRaw),
                                         answer |-> trim(steps.text)])]

\* mutant: the detected header row is left out of the scan
RECURSIVE scanRowsSkippingHeader(_, _, _, _, _, _)
scanRowsSkippingHeader(st, sheetName, t, rows, headerIndex, r) ==
    IF st.status = "raised" \/ r >= lengthOf(rows) THEN st
    ELSE scanRowsSkippingHeader(
             IF r = headerIndex THEN st ELSE scanRow(st, sheetName, t, rows, headerIndex, r),
             sheetName, t, rows, headerIndex, r + 1)

\* for (let r = 0; r < rows.length; r++)
RECURSIVE scanRows(_, _, _, _, _, _)
scanRows(st, sheetName, t, rows, headerIndex, r) ==
    IF st.status = "raised" \/ r >= lengthOf(rows) THEN st
    ELSE scanRows(scanRow(st, sheetName, t, rows, headerIndex, r),
                  sheetName, t, rows, headerIndex, r + 1)

\* the body of the loop over Object.entries(matrixDoc), for entry t
scanTab(st, doc, t) ==
    LET rows == doc.tabs[t].rows
        st1 == [st EXCEPT !.tabsEntered = @ + 1]
    IN IF ~ArrayIsArray(rows) THEN st1
       ELSE IF PropertyAccessThrows(rows) THEN [st1 EXCEPT !.status = "raised"]
       ELSE scanRows(st1, doc.tabs[t].name, t, rows, detectHeaderRowIndex(rows), 0)

RECURSIVE scanTabs(_, _, _)
scanTabs(st, doc, t) ==
    IF st.status = "raised" \/ t > Len(doc.tabs) THEN st
    ELSE scanTabs(scanTab(st, doc, t), doc, t + 1)

ScanReturnedNone ==
    [status |-> "returned", bestHit |-> NoHit, expanded |-> FALSE, queries |-> <<>>,
     tabsEntered |-> 0, rowsScored |-> {}]

\* mutant: the early return on an empty question left out
questionIsEmptyNever(q0) == FALSE

\* if (!q0) return null
questionIsEmpty(q0) == q0 = ""

\* one invocation, with its trace
findDirectMatrixAnswerScan(matrixDoc, userQuestion) ==
    IF matrixDoc.kind # "object" THEN ScanReturnedNone
    ELSE LET q0 == norm(userQuestion)
         IN IF questionIsEmpty(q0) THEN ScanReturnedNone
            ELSE scanTabs([ScanReturnedNone EXCEPT
                              !.expanded = TRUE,
                              !.queries = expandQueryVariants(q0)],
                          matrixDoc, 1)

\* the call as handleAsk makes it: how it ended, and the hit or null
findDirectMatrixAnswer(matrixDoc, userQuestion) ==
    findDirectMatrixAnswerScan(matrixDoc, userQuestion)

\* mutant: the matched concern cell is normalized in place
matrixDocNormalizedInPlace(matrixDoc, scan) ==
    IF ~scan.bestHit.found THEN matrixDoc
    ELSE LET t == CHOOSE i \in 1..Len(matrixDoc.tabs) :
                      matrixDoc.tabs[i].name = scan.bestHit.sheetName
             r == scan.bestHit.rowIndex + 1
             c == scan.bestHit.colIndex + 1
         IN [matrixDoc EXCEPT !.tabs[t].rows.cells[r].cells[c] = norm(@)]

\* the caller's document object once the invocation has ended: the loops
\* read it (Object.entries, rows[r], row[c], row.map) and assign nothing
matrixDocAfter(matrixDoc, scan) == matrixDoc


-----------------------------------------------------------------------------
(* The server (server.js 35-37, 350-428, 761-947).  A request handler runs *)
(* to its first await in one step; each await that waits on the network    *)
(* (Google Sheets, a document fetch, the provider, the 55 s timer) ends in  *)
(* a step of its own.                                                      *)

MaxAsks == 1
MaxReloads == 1

DIRECT_HIT_THRESHOLD == 70
TIMEOUT_STATUS == 504
DEFAULT_ERROR_STATUS == 500

\* the docs array of loadDocuments, in order
OtherDocs == <<"qaVoice", "qaGroup", "trainingGuide", "rppGuide">>

UndefinedDoc == [kind |-> "undefined", tabs |-> <<>>]
EmptyCache == [keys |-> {}, matrix |-> UndefinedDoc]

\* Object.keys(DOCUMENT_CACHE).length
cacheKeyCount(cache) == Cardinality(cache.keys)

\* mutant: the guard on DOCS_LOADING left out
loadPassesGuardsIgnoringLoading(loading, cache, force) ==
    ~(cacheKeyCount(cache) > 0 /\ ~force)

\* the guards of loadDocuments: already loading, or filled and not forced
loadPassesGuards(loading, cache, force) ==
    /\ ~loading
    /\ ~(cacheKeyCount(cache) > 0 /\ ~force)

NewLoad(by, waiter) == [step |-> 0, by |-> by, waiter |-> waiter]

\* what the Google Sheets client can return for the matrix
RowCharged == ArrayOf(<<"3", "charged", "Check folio", "Yes">>)
RowGuestCharged == ArrayOf(<<"5", "guest charged", "Call">>)
SheetHeader == ArrayOf(<<"#", "Concern", "Instructions", "Slack">>)

MatrixV1 ==
    [kind |-> "object",
     tabs |-> <<[name |-> "Matrix", rows |-> ArrayOf(<<SheetHeader, RowCharged>>)]>>]
MatrixV2 ==
    [kind |-> "object",
     tabs |-> <<[name |-> "Matrix", rows |-> ArrayOf(<<RowGuestCharged>>)]>>]

\* a sheet whose data row has a single cell, under a header with "Slack" first
MatrixV3 ==
    [kind |-> "object",
     tabs |-> <<[name |-> "Escalations",
                 rows |-> ArrayOf(<<ArrayOf(<<"Slack", "Issue">>),
                                    ArrayOf(<<"Double charged">>)>>)]>>]

MatrixDocs == {MatrixV1, MatrixV2, MatrixV3}

\* a two-tab spreadsheet: the mapping cached before a reload, and the tabs
\* the Sheets client returns during the reload, in the order of its metadata
RowDoubleCharged == ArrayOf(<<"7", "double charged", "Open ticket">>)

MatrixBeforeReload ==
    [kind |-> "object",
     tabs |-> <<[name |-> "Voice", rows |-> ArrayOf(<<SheetHeader, RowCharged>>)],
                [name |-> "Tickets", rows |-> ArrayOf(<<RowGuestCharged>>)]>>]

SpreadsheetAtReload ==
    <<[name |-> "Voice", rows |-> ArrayOf(<<SheetHeader>>)],
      [name |-> "Tickets", rows |-> ArrayOf(<<RowDoubleCharged>>)]>>

\* const out = {}
EmptyMapping == [kind |-> "object", tabs |-> <<>>]

\* the mappings loadMatrixSheets can return for a spreadsheet: each tab
\* loaded, or left out because its fetch failed
RECURSIVE MappingsOf(_)
MappingsOf(sheets) ==
    IF sheets = <<>> THEN {EmptyMapping}
    ELSE LET rest == MappingsOf(Tail(sheets))
         IN rest \cup {[m EXCEPT !.tabs = <<Head(sheets)>> \o @] : m \in rest}

\* the values DOCUMENT_CACHE.matrix takes
CacheableDocs ==
    MatrixDocs \cup {UndefinedDoc, MatrixBeforeReload} \cup MappingsOf(SpreadsheetAtReload)

AskQuestions == {"", "Double charged!"}
AskModes == {"cloud", "local"}

\* provider and keys of the environment
Configs ==
    { [provider |-> "anthropic", keys |-> {"anthropic"}],
      [provider |-> "nebius", keys |-> {"anthropic", "kimi"}] }

\* keyCheck[AI_PROVIDER]
providerKeyPresent(provider, keys) ==
    provider \in {"nebius", "kimi", "anthropic"} /\ provider \in keys

NoResponse == [status |-> 0, ok |-> FALSE, provider |-> "", answer |-> "", citation |-> <<>>]

\* res.status(code).json({ok: false, error, provider})
errorResponse(code, provider) ==
    [status |-> code, ok |-> FALSE, provider |-> provider, answer |-> "", citation |-> <<>>]

\* res.json({ok: true, answer, provider, ...})
okResponse(provider, answer, citation) ==
    [status |-> 200, ok |-> TRUE, provider |-> provider, answer |-> answer,
     citation |-> citation]

directCitation(direct) ==
    [tab |-> direct.sheetName, row |-> direct.rowIndex + 1,
     concernColumn |-> "B", answerColumn |-> "C"]

\* mutant: the cutoff set above the substring tier
isDirectHitAbove90(direct) == direct.found /\ direct.score >= 90

\* direct && direct.score >= 70
isDirectHit(direct) == direct.found /\ direct.score >= DIRECT_HIT_THRESHOLD

\* mutant: the direct answer is sent but the handler does not return
respondDirectNoReturn(ask, direct) ==
    [ask EXCEPT !.responses = @ + 1,
                !.response = okResponse("matrix", direct.answer, directCitation(direct)),
                !.pc = "awaiting",
                !.providerCalls = @ + 1,
                !.provider = "pending",
                !.timer = "armed"]

\* return res.json({... provider: "matrix" ...})
respondDirect(ask, direct) ==
    [ask EXCEPT !.pc = "responded",
                !.responses = @ + 1,
                !.response = okResponse("matrix", direct.answer, directCitation(direct))]

\* the provider call, the timer and the await of their race
callProviderAndAwait(ask) ==
    [ask EXCEPT !.pc = "awaiting",
                !.providerCalls = @ + 1,
                !.provider = "pending",
                !.timer = "armed"]

respondWith(ask, response) ==
    [ask EXCEPT !.pc = "responded", !.responses = @ + 1, !.response = response]

\* findDirectMatrixAnswer(DOCUMENT_CACHE.matrix, question), tabulated over
\* the matrices the cache can hold and the questions a request can carry
directLookup ==
    [d \in CacheableDocs, q \in AskQuestions |-> findDirectMatrixAnswer(d, q)]

\* the call of line 809, read from the table
lookupMatrix(matrixDoc, question) == directLookup[matrixDoc, question]

\* what findDirectMatrixAnswer returns on the cached matrix when the request
\* is handled, whether or not the handler gets to call it (null: NoHit)
cachedMatrixHit(cache, question) ==
    LET scan == lookupMatrix(cache.matrix, question)
    IN IF question # "" /\ scan.status = "returned" THEN scan.bestHit ELSE NoHit

\* handleAsk from its entry to its first await or its response
handleAskSync(question, mode, provider, keys, cache) ==
    LET ask0 == [question |-> question, mode |-> mode, pc |-> "new",
                 cachedHit |-> cachedMatrixHit(cache, question),
                 lookedUp |-> FALSE, direct |-> NoHit,
                 providerCalls |-> 0, provider |-> "none", timer |-> "none",
                 responses |-> 0, response |-> NoResponse]
    IN IF question = "" THEN respondWith(ask0, errorResponse(400, ""))
       ELSE IF mode = "local"
            THEN respondWith(ask0, okResponse("local",
                     "[LOCAL MODE]\nProvider: " \o provider \o "\nQ: " \o question, <<>>))
       ELSE IF ~providerKeyPresent(provider, keys)
            THEN respondWith(ask0, errorResponse(DEFAULT_ERROR_STATUS, ""))
       ELSE LET scan == lookupMatrix(cache.matrix, question)
                ask1 == [ask0 EXCEPT !.lookedUp = TRUE, !.direct = scan.bestHit]
            IN IF scan.status = "raised"
               THEN respondWith(ask1, errorResponse(DEFAULT_ERROR_STATUS, provider))
               ELSE IF isDirectHit(scan.bestHit) THEN respondDirect(ask1, scan.bestHit)
               ELSE callProviderAndAwait(ask1)

\* the request triggers loadDocuments() when the cache is empty and idle
askTriggersLoad(question, loading, cache) ==
    /\ question # ""
    /\ cacheKeyCount(cache) = 0 /\ ~loading
    /\ loadPassesGuards(loading, cache, FALSE)

AskRequest(question, mode) ==
    /\ Len(asks) < MaxAsks
    /\ asks' = Append(asks,
                  handleAskSync(question, mode, AI_PROVIDER, API_KEYS, DOCUMENT_CACHE))
    /\ IF askTriggersLoad(question, DOCS_LOADING, DOCUMENT_CACHE)
       THEN /\ DOCS_LOADING' = TRUE
            /\ loads' = Append(loads, NewLoad("ask", 0))
       ELSE UNCHANGED <<DOCS_LOADING, loads>>
    /\ UNCHANGED <<AI_PROVIDER, API_KEYS, DOCUMENT_CACHE, LAST_LOAD, reloads, harnessVars, reviewVars>>

\* the provider's promise settles: it wins the race unless the timer did
ProviderResolves(i) ==
    /\ asks[i].provider = "pending"
    /\ asks' = [asks EXCEPT ![i] =
                  LET a == [@ EXCEPT !.provider = "settled"]
                  IN IF a.pc = "awaiting"
                     THEN respondWith(a, okResponse(AI_PROVIDER, "AI answer", <<>>))
                     ELSE a]
    /\ UNCHANGED <<AI_PROVIDER, API_KEYS, DOCUMENT_CACHE, LAST_LOAD, DOCS_LOADING, loads,
                   reloads, harnessVars, reviewVars>>

\* the provider's promise rejects, with e.status or without (0)
ProviderRejects(i, errStatus) ==
    /\ asks[i].provider = "pending"
    /\ asks' = [asks EXCEPT ![i] =
                  LET a == [@ EXCEPT !.provider = "settled"]
                  IN IF a.pc = "awaiting"
                     THEN respondWith(a, errorResponse(
                              IF errStatus = 0 THEN DEFAULT_ERROR_STATUS ELSE errStatus,
                              AI_PROVIDER))
                     ELSE a]
    /\ UNCHANGED <<AI_PROVIDER, API_KEYS, DOCUMENT_CACHE, LAST_LOAD, DOCS_LOADING, loads,
                   reloads, harnessVars, reviewVars>>

\* mutant: the timer's rejection is answered whether or not the race is over
TimeoutFiresAnswering(i) ==
    /\ asks[i].timer = "armed"
    /\ asks' = [asks EXCEPT ![i] =
                  respondWith([@ EXCEPT !.timer = "fired"],
                              errorResponse(TIMEOUT_STATUS, AI_PROVIDER))]
    /\ UNCHANGED <<AI_PROVIDER, API_KEYS, DOCUMENT_CACHE, LAST_LOAD, DOCS_LOADING, loads,
                   reloads, harnessVars, reviewVars>>

\* the 55 s timer fires: it wins the race unless the provider did
TimeoutFires(i) ==
    /\ asks[i].timer = "armed"
    /\ asks' = [asks EXCEPT ![i] =
                  LET a == [@ EXCEPT !.timer = "fired"]
                  IN IF a.pc = "awaiting"
                     THEN respondWith(a, errorResponse(TIMEOUT_STATUS, AI_PROVIDER))
                     ELSE a]
    /\ UNCHANGED <<AI_PROVIDER, API_KEYS, DOCUMENT_CACHE, LAST_LOAD, DOCS_LOADING, loads,
                   reloads, harnessVars, reviewVars>>

\* POST /admin/reload-docs: await loadDocuments(true), then answer
AdminReload ==
    /\ Len(reloads) < MaxReloads
    /\ IF loadPassesGuards(DOCS_LOADING, DOCUMENT_CACHE, TRUE)
       THEN /\ DOCS_LOADING' = TRUE
            /\ loads' = Append(loads, NewLoad("admin", Len(reloads) + 1))
            /\ reloads' = Append(reloads, [pc |-> "awaiting", ownLoad |-> TRUE])
       ELSE /\ reloads' = Append(reloads, [pc |-> "responded", ownLoad |-> FALSE])
            /\ UNCHANGED <<DOCS_LOADING, loads>>
    /\ UNCHANGED <<AI_PROVIDER, API_KEYS, DOCUMENT_CACHE, LAST_LOAD, asks, harnessVars, reviewVars>>

\* the load k leaves its last await: LAST_LOAD, DOCS_LOADING, and the
\* reload request that awaited it answers
finishLoad(k) ==
    /\ LAST_LOAD' = LAST_LOAD + 1
    /\ DOCS_LOADING' = FALSE
    /\ loads' = [j \in 1..(Len(loads) - 1) |-> IF j < k THEN loads[j] ELSE loads[j + 1]]
    /\ reloads' = IF loads[k].by = "admin"
                  THEN [reloads EXCEPT ![loads[k].waiter].pc = "responded"]
                  ELSE reloads

\* loadMatrixSheets resolves with a freshly built mapping
MatrixFetched(k, matrix) ==
    /\ loads[k].step = 0
    /\ DOCUMENT_CACHE' = [keys |-> DOCUMENT_CACHE.keys \cup {"matrix"}, matrix |-> matrix]
    /\ loads' = [loads EXCEPT ![k].step = 1]
    /\ UNCHANGED <<AI_PROVIDER, API_KEYS, LAST_LOAD, DOCS_LOADING, asks, reloads, harnessVars, reviewVars>>

\* loadMatrixSheets rejects: logged, the other documents still load
MatrixFetchFails(k) ==
    /\ loads[k].step = 0
    /\ loads' = [loads EXCEPT ![k].step = 1]
    /\ UNCHANGED <<AI_PROVIDER, API_KEYS, DOCUMENT_CACHE, LAST_LOAD, DOCS_LOADING, asks,
                   reloads, harnessVars, reviewVars>>

\* mutant: a failed fetch is not caught and ends the execution where it is
DocFetchSettlesUncaught(k, ok) ==
    /\ loads[k].step \in 1..Len(OtherDocs)
    /\ IF ok
       THEN /\ DOCUMENT_CACHE' = [DOCUMENT_CACHE EXCEPT !.keys = @ \cup {OtherDocs[loads[k].step]}]
            /\ IF loads[k].step < Len(OtherDocs)
               THEN /\ loads' = [loads EXCEPT ![k].step = @ + 1]
                    /\ UNCHANGED <<LAST_LOAD, DOCS_LOADING, reloads>>
               ELSE finishLoad(k)
       ELSE /\ loads' = [j \in 1..(Len(loads) - 1) |-> IF j < k THEN loads[j] ELSE loads[j + 1]]
            /\ UNCHANGED <<DOCUMENT_CACHE, LAST_LOAD, DOCS_LOADING, reloads>>
    /\ UNCHANGED <<AI_PROVIDER, API_KEYS, asks, harnessVars, reviewVars>>

\* the fetch of document number step of OtherDocs settles
DocFetchSettles(k, ok) ==
    /\ loads[k].step \in 1..Len(OtherDocs)
    /\ DOCUMENT_CACHE' = IF ok
                         THEN [DOCUMENT_CACHE EXCEPT !.keys = @ \cup {OtherDocs[loads[k].step]}]
                         ELSE DOCUMENT_CACHE
    /\ IF loads[k].step < Len(OtherDocs)
       THEN /\ loads' = [loads EXCEPT ![k].step = @ + 1]
            /\ UNCHANGED <<LAST_LOAD, DOCS_LOADING, reloads>>
       ELSE finishLoad(k)
    /\ UNCHANGED <<AI_PROVIDER, API_KEYS, asks, harnessVars, reviewVars>>

HarnessIdle == callPc = "idle" /\ callArgs = <<>> /\ callRet = <<>>

\* app.listen's callback has called loadDocuments(): the first load is at
\* its first await
Init ==
    /\ HarnessIdle
    /\ ReviewsIdle
    /\ \E c \in Configs : AI_PROVIDER = c.provider /\ API_KEYS = c.keys
    /\ DOCUMENT_CACHE = EmptyCache
    /\ LAST_LOAD = 0
    /\ DOCS_LOADING = TRUE
    /\ loads = <<NewLoad("startup", 0)>>
    /\ asks = <<>>
    /\ reloads = <<>>

Next ==
    \/ \E q \in AskQuestions, m \in AskModes : AskRequest(q, m)
    \/ \E i \in 1..Len(asks) : ProviderResolves(i)
    \/ \E i \in 1..Len(asks), st \in {0, 429} : ProviderRejects(i, st)
    \/ \E i \in 1..Len(asks) : TimeoutFires(i)
    \/ AdminReload
    \/ \E k \in 1..Len(loads), d \in MatrixDocs : MatrixFetched(k, d)
    \/ \E k \in 1..Len(loads) : MatrixFetchFails(k)
    \/ \E k \in 1..Len(loads), ok \in BOOLEAN : DocFetchSettles(k, ok)

Spec == Init /\ [][Next]_vars

-----------------------------------------------------------------------------
(* A reload seen at the awaits of loadMatrixSheets (googleSheetsReviews.js *)
(* 272-336): the metadata request, then one values request per tab, each   *)
(* stored in the function's own mapping, which loadDocuments assigns to    *)
(* DOCUMENT_CACHE.matrix when the function returns.  /ask requests are     *)
(* handled between any two of these steps.                                 *)

\* out[title] = values
storeTab(mapping, title, values) ==
    IF \E i \in 1..Len(mapping.tabs) : mapping.tabs[i].name = title
    THEN [mapping EXCEPT !.tabs =
             [i \in 1..Len(@) |-> IF @[i].name = title
                                  THEN [name |-> title, rows |-> values] ELSE @[i]]]
    ELSE [mapping EXCEPT !.tabs = Append(@, [name |-> title, rows |-> values])]

\* mutant: the loader fills the cached mapping itself instead of a new one
cacheSharingOut(cache, title, values) ==
    [keys |-> cache.keys \cup {"matrix"},
     matrix |-> storeTab(IF cache.matrix.kind = "object" THEN cache.matrix
                         ELSE EmptyMapping, title, values)]

\* the cache when loadMatrixSheets has stored a tab: out is the function's
\* own object and DOCUMENT_CACHE is not written before it returns
cacheAfterTabStored(cache, title, values) == cache

\* loadDocuments(true) of /admin/reload-docs, at the metadata request
ReloadingLoad ==
    [step |-> 0, by |-> "admin", waiter |-> 1, listed |-> FALSE, pending |-> <<>>,
     out |-> EmptyMapping]

\* sheets.spreadsheets.get resolves: the tab titles are known
MatrixTitlesFetched(k) ==
    /\ loads[k].step = 0 /\ ~loads[k].listed
    /\ loads' = [loads EXCEPT ![k].listed = TRUE, ![k].pending = SpreadsheetAtReload]
    /\ UNCHANGED <<AI_PROVIDER, API_KEYS, DOCUMENT_CACHE, LAST_LOAD, DOCS_LOADING, asks,
                   reloads, harnessVars, reviewVars>>

\* the client or the metadata request fails: loadMatrixSheets rejects
MatrixTitlesFetchFail(k) ==
    /\ ~loads[k].listed
    /\ MatrixFetchFails(k)

\* the values request of the next tab settles; a failure skips the tab
MatrixTabSettles(k, ok) ==
    /\ loads[k].step = 0 /\ loads[k].listed /\ loads[k].pending # <<>>
    /\ LET sheet == Head(loads[k].pending)
       IN /\ loads' = [loads EXCEPT
                          ![k].pending = Tail(@),
                          ![k].out = IF ok THEN storeTab(@, sheet.name, sheet.rows) ELSE @]
          /\ DOCUMENT_CACHE' =
                IF ok THEN cacheAfterTabStored(DOCUMENT_CACHE, sheet.name, sheet.rows)
                ELSE DOCUMENT_CACHE
    /\ UNCHANGED <<AI_PROVIDER, API_KEYS, LAST_LOAD, DOCS_LOADING, asks, reloads, harnessVars, reviewVars>>

\* return out; DOCUMENT_CACHE.matrix = matrix
MatrixSheetsReturned(k) ==
    /\ loads[k].listed /\ loads[k].pending = <<>>
    /\ MatrixFetched(k, loads[k].out)

InitReload ==
    /\ HarnessIdle
    /\ ReviewsIdle
    /\ AI_PROVIDER = "anthropic" /\ API_KEYS = {"anthropic"}
    /\ DOCUMENT_CACHE = [keys |-> {"matrix"} \cup {OtherDocs[i] : i \in 1..Len(OtherDocs)},
                         matrix |-> MatrixBeforeReload]
    /\ LAST_LOAD = 1
    /\ DOCS_LOADING = TRUE
    /\ loads = <<ReloadingLoad>>
    /\ asks = <<>>
    /\ reloads = <<[pc |-> "awaiting", ownLoad |-> TRUE]>>

NextReload ==
    \/ \E q \in AskQuestions, m \in AskModes : AskRequest(q, m)
    \/ \E i \in 1..Len(asks) : ProviderResolves(i)
    \/ \E i \in 1..Len(asks), st \in {0, 429} : ProviderRejects(i, st)
    \/ \E i \in 1..Len(asks) : TimeoutFires(i)
    \/ \E k \in 1..Len(loads) : MatrixTitlesFetched(k)
    \/ \E k \in 1..Len(loads) : MatrixTitlesFetchFail(k)
    \/ \E k \in 1..Len(loads), ok \in BOOLEAN : MatrixTabSettles(k, ok)
    \/ \E k \in 1..Len(loads) : MatrixSheetsReturned(k)
    \/ \E k \in 1..Len(loads), ok \in BOOLEAN : DocFetchSettles(k, ok)

SpecReload == InitReload /\ [][NextReload]_vars

\* the server's variables while a pure function is checked on its own
ServerIdle ==
    /\ AI_PROVIDER = "anthropic"
    /\ API_KEYS = {}
    /\ DOCUMENT_CACHE = EmptyCache
    /\ LAST_LOAD = 0
    /\ DOCS_LOADING = FALSE
    /\ loads = <<>>
    /\ asks = <<>>
    /\ reloads = <<>>

-----------------------------------------------------------------------------
(* Harness for scoreMatch: the inputs are the strings norm can return,     *)
(* built as tokens joined by single spaces; the empty token gives the      *)
(* leading, trailing and doubled spaces norm leaves when it strips         *)
(* punctuation after collapsing whitespace.                                *)

MaxQueryTokens == 4
MaxCellTokens == 2
TokenAlphabet == {"", "a", "b", "ab"}

TokenStrings(n) ==
    {joinWith(ts, " ") : ts \in UNION {[1..k -> TokenAlphabet] : k \in 0..n}}

QueryStrs == TokenStrings(MaxQueryTokens)
CellStrs == TokenStrings(MaxCellTokens)

InitScore ==
    /\ ServerIdle
    /\ ReviewsIdle
    /\ callPc = "in"
    /\ callArgs \in [cell : CellStrs, q : QueryStrs]
    /\ callRet = 0

CallScoreMatch ==
    /\ callPc = "in"
    /\ callPc' = "out"
    /\ callRet' = scoreMatch(callArgs.cell, callArgs.q)
    /\ UNCHANGED <<callArgs, serverVars, reviewVars>>

NextScore == CallScoreMatch

SpecScore == InitScore /\ [][NextScore]_vars

-----------------------------------------------------------------------------
(* Reference definitions for the scoring claims, stated over character     *)
(* positions rather than by the code's split and loop.                     *)

RefContains(s, t) ==
    \E i \in 1..(Len(s) + 1) : \E j \in 0..Len(s) : SubSeq(s, i, j) = t

\* the spans <<i, j>> of the maximal runs of non-space characters of s
RefTokenSpans(s) ==
    {sp \in (1..Len(s)) \X (1..Len(s)) :
        /\ sp[1] <= sp[2]
        /\ \A k \in sp[1]..sp[2] : CharAt(s, k) # " "
        /\ (sp[1] = 1 \/ CharAt(s, sp[1] - 1) = " ")
        /\ (sp[2] = Len(s) \/ CharAt(s, sp[2] + 1) = " ")}

RefWords(s) == {SubSeq(s, sp[1], sp[2]) : sp \in RefTokenSpans(s)}

\* query token occurrences found among the cell's words
RefOverlap(cell, q) ==
    Cardinality({sp \in RefTokenSpans(q) : SubSeq(q, sp[1], sp[2]) \in RefWords(cell)})

RefTokenTier(cell, q) ==
    /\ cell # "" /\ q # ""
    /\ cell # q
    /\ ~RefContains(cell, q) /\ ~RefContains(q, cell)

RefScore(cell, q) ==
    IF cell = "" \/ q = "" THEN 0
    ELSE IF cell = q THEN 100
    ELSE IF RefContains(cell, q) \/ RefContains(q, cell) THEN 85
    ELSE LET overlap == RefOverlap(cell, q)
             minimum == IF Cardinality(RefTokenSpans(q)) <= 2 THEN 1 ELSE 2
         IN IF overlap < minimum THEN 0
            ELSE IF 45 + 10 * overlap < 80 THEN 45 + 10 * overlap ELSE 80

\* C5: scoreMatch returns an integer in {0} \cup [45,100], and a result of
\* the token-overlap tier is at most 80, below the substring tier's 85.
C5_ScoreRange ==
    callPc = "out" =>
        /\ callRet \in {0} \cup (45..100)
        /\ RefTokenTier(callArgs.cell, callArgs.q) =>
              (callRet <= 80 /\ callRet < 85)

\* the cap binds: four overlapping tokens would give 85 uncapped
C5_Witness ==
    /\ callPc = "out"
    /\ RefTokenTier(callArgs.cell, callArgs.q)
    /\ RefOverlap(callArgs.cell, callArgs.q) >= 4
    /\ callRet = 80

\* C6: scoreMatch equals the tiered reference (first matching tier wins).
C6_ScoreEqualsReference ==
    callPc = "out" => callRet = RefScore(callArgs.cell, callArgs.q)

\* a two-token query scored on one shared token
C6_Witness ==
    /\ callPc = "out"
    /\ RefTokenTier(callArgs.cell, callArgs.q)
    /\ Cardinality(RefTokenSpans(callArgs.q)) = 2
    /\ RefOverlap(callArgs.cell, callArgs.q) = 1
    /\ callRet = 55

\* C7: for a query of more than 2 tokens and a cell neither equal to it nor
\* in a substring relation with it, if only one word of the query occurs
\* among the cell's words then scoreMatch returns 0.
C7_SingleSharedWordScoresZero ==
    (/\ callPc = "out"
     /\ Cardinality(RefTokenSpans(callArgs.q)) > 2
     /\ RefTokenTier(callArgs.cell, callArgs.q)
     /\ Cardinality(RefWords(callArgs.q) \cap RefWords(callArgs.cell)) = 1)
    => callRet = 0

-----------------------------------------------------------------------------
(* Harness for extractMatrixSteps: a sheet of one header row and one data  *)
(* row, any header index and any matched row index.                        *)

MaxFlagCols == 2

ExtractHeaders ==
    { ArrayOf(<<"#", "Concern", "Instructions", "Slack", "Refund Queue">>),
      ArrayOf(<<"#", "Issue", "Steps", "Supervisor", "Slack", "Create a Ticket?">>),
      ArrayOf(<<"#", "Concern", "Instructions", "SLACK ", "slack">>),
      ArrayOf(<<"", "Concern", "Instructions", "Refund-Queue", "Refund  Queue">>),
      NullValue }

AnswerPool == {"Issue refund via Billing Queue", "N/A", "", "  Call Hotel. "}
FlagPool == {"Yes", "No", " y ", "#billing", "", "n/a"}

ExtractDataRows ==
    LET fulls == {<<"1", "x", a>> \o fs : a \in AnswerPool, fs \in [1..MaxFlagCols -> FlagPool]}
    IN {ArrayOf(SubSeq(f, 1, n)) : f \in fulls, n \in 0..(3 + MaxFlagCols)} \cup {NullValue}

InitExtract ==
    /\ ServerIdle
    /\ ReviewsIdle
    /\ callPc = "in"
    /\ callArgs \in [rows : {ArrayOf(<<h, d>>) : h \in ExtractHeaders, d \in ExtractDataRows},
                     headerIndex : {-1, 0, 1},
                     rowIndex : {0, 1, 2}]
    /\ callRet = NoAnswer

CallExtractMatrixSteps ==
    /\ callPc = "in"
    /\ callPc' = "out"
    /\ callRet' = extractMatrixSteps(callArgs.rows, callArgs.headerIndex, callArgs.rowIndex)
    /\ UNCHANGED <<callArgs, serverVars, reviewVars>>

NextExtract == CallExtractMatrixSteps

SpecExtract == InitExtract /\ [][NextExtract]_vars

\* Reference for C8, stated by sets of columns instead of the code's loops.
RefHeaderColumns(headerRow, label) ==
    IF headerRow.kind # "array" THEN {}
    ELSE {i \in 0..(Len(headerRow.cells) - 1) : norm(headerRow.cells[i + 1]) = label}

RefMinOf(S) == CHOOSE x \in S : \A y \in S : x <= y

RefFlagValue(row, headerRow, label) ==
    normalizeYesNo(cellAt(row, RefMinOf(RefHeaderColumns(headerRow, label))))

RefFlagShown(row, headerRow, label) ==
    /\ RefHeaderColumns(headerRow, label) # {}
    /\ ~isNoValue(RefFlagValue(row, headerRow, label))
    /\ norm(RefFlagValue(row, headerRow, label)) \notin {"no", "n"}

RefLabels == <<"slack", "refund queue", "create a ticket", "supervisor">>
RefDisplay == <<"Slack", "Refund Queue", "Create a Ticket", "Supervisor">>

\* the shown lines for labels k..4, each followed by a line break
RECURSIVE RefLinesFrom(_, _, _)
RefLinesFrom(row, headerRow, k) ==
    IF k > 4 THEN ""
    ELSE (IF RefFlagShown(row, headerRow, RefLabels[k])
          THEN RefDisplay[k] \o ": " \o RefFlagValue(row, headerRow, RefLabels[k]) \o "\n"
          ELSE "")
         \o RefLinesFrom(row, headerRow, k + 1)

RefExtract(rows, headerIndex, rowIndex) ==
    LET row == rowAt(rows, rowIndex)
        headerRow == IF headerIndex = -1 THEN NullValue ELSE rowAt(rows, headerIndex)
        c2 == trim(cellAt(row, 2))
        base == IF isNoValue(c2) THEN "" ELSE c2
        lines == RefLinesFrom(row, headerRow, 1)
        \* joined by newline: the last line carries no line break
        extras == SubSeq(lines, 1, Len(lines) - 1)
    IN IF base = "" /\ extras = "" THEN NoAnswer
       ELSE IF extras = "" THEN AnswerText(base)
       ELSE IF base = "" THEN AnswerText(extras)
       ELSE AnswerText(base \o "\n" \o "\n" \o extras)

\* C8: extractMatrixSteps equals the reference: column C verbatim unless
\* absent, then the shown flag lines in the fixed label order, joined as
\* base, blank line, extras.
C8_ExtractEqualsReference ==
    callPc = "out" =>
        callRet = RefExtract(callArgs.rows, callArgs.headerIndex, callArgs.rowIndex)

\* base and two flag lines, in label order although the header lists
\* Supervisor before Slack
C8_Witness ==
    /\ callPc = "out"
    /\ callArgs.headerIndex = 0 /\ callArgs.rowIndex = 1
    /\ callRet = AnswerText("Call Hotel.\n\nSlack: #billing\nSupervisor: Yes")

-----------------------------------------------------------------------------
(* Harness for findDirectMatrixAnswer.  A document is written as a         *)
(* sequence of items: a row joins the current tab, a break starts the next *)
(* tab, a bad tab puts a non-array value between two tabs.                 *)

MaxDocItems == 3

RowExact == ArrayOf(<<"1", "Double charged", "Refund", "Yes">>)
RowAlias == ArrayOf(<<"2", "Duplicate charge.", "", "y">>)
RowTokens == ArrayOf(<<"5", "guest charged", "Call">>)
RowHeader == ArrayOf(<<"#", "Concern", "Instructions", "Slack">>)

BreakItem == [kind |-> "break", cells |-> <<>>]
BadTabItem == [kind |-> "badtab", cells |-> <<>>]

FindItems ==
    {RowExact, RowAlias, RowTokens, RowHeader, NullValue,
     BreakItem, BadTabItem}

RECURSIVE SplitTabs(_, _, _, _)
SplitTabs(items, k, cur, acc) ==
    IF k > Len(items) THEN Append(acc, ArrayOf(cur))
    ELSE IF items[k].kind = "break"
         THEN SplitTabs(items, k + 1, <<>>, Append(acc, ArrayOf(cur)))
    ELSE IF items[k].kind = "badtab"
         THEN SplitTabs(items, k + 1, <<>>, Append(Append(acc, ArrayOf(cur)), NullValue))
    ELSE SplitTabs(items, k + 1, Append(cur, items[k]), acc)

TabName(i) == "Tab" \o CharAt(DigitChars, i + 1)

DocOf(items) ==
    LET sheets == SplitTabs(items, 1, <<>>, <<>>)
    IN [kind |-> "object",
        tabs |-> [i \in 1..Len(sheets) |-> [name |-> TabName(i), rows |-> sheets[i]]]]

EmptyDoc == [kind |-> "object", tabs |-> <<>>]

FindDocs ==
    {DocOf(items) : items \in UNION {[1..k -> FindItems] : k \in 0..MaxDocItems}}
        \cup {UndefinedDoc, EmptyDoc}

FindQuestions == {"Double charged!", "charged the guest", "?!", "! !"}

\* the worked example: one tab "Matrix", a header row and one data row
WorkedExample ==
    [doc |-> [kind |-> "object",
              tabs |-> <<[name |-> "Matrix",
                          rows |-> ArrayOf(<<
                              ArrayOf(<<"#", "Concern", "Instructions", "Slack",
                                        "Refund Queue">>),
                              ArrayOf(<<"1", "Guest was double charged",
                                        "Issue refund via Billing Queue", "Yes",
                                        "No">>)>>)]>>],
     question |-> "I charged the guest twice by mistake"]

\* rows whose concern cell reads as "no value", asked for by that value
RowNA == ArrayOf(<<"9", "N/A", "Escalate", "No">>)
RowNone == ArrayOf(<<"8", "None.", "n/a">>)
RowZero == ArrayOf(<<"0">>)
RowPunct == ArrayOf(<<"7", "?!", "Wait">>)

ConcernItems == {RowNA, RowNone, RowZero, RowPunct}

ConcernCalls ==
    [doc : {DocOf(items) : items \in UNION {[1..k -> ConcernItems] : k \in 1..2}},
     question : {"n/a", "None", "0"}]

\* a data row of one cell under a header naming a flag in the first column
ShortRowCalls == {[doc |-> MatrixV3, question |-> "Double charged!"]}

\* sheets asked for the label of their header row; RowLabels is a header
\* row with no column C and no flag column
RowLabels == ArrayOf(<<"#", "Concern">>)

HeaderRowCalls ==
    [doc : {DocOf(items) : items \in UNION {[1..k -> {RowHeader, RowLabels, RowExact}] :
                                               k \in 1..2}},
     question : {"Concern?", "the concern"}]

InitFind ==
    /\ ServerIdle
    /\ ReviewsIdle
    /\ callPc = "in"
    /\ callArgs \in [doc : FindDocs, question : FindQuestions]
                        \cup {WorkedExample} \cup ConcernCalls \cup ShortRowCalls
                        \cup HeaderRowCalls
    /\ callRet = ScanReturnedNone

CallFindDirectMatrixAnswer ==
    /\ callPc = "in"
    /\ callPc' = "out"
    /\ callRet' = findDirectMatrixAnswerScan(callArgs.doc, callArgs.question)
    /\ UNCHANGED <<callArgs, serverVars, reviewVars>>

NextFind == CallFindDirectMatrixAnswer

SpecFind == InitFind /\ [][NextFind]_vars

-----------------------------------------------------------------------------
(* Reference definitions for the search claims: the rows of a document as  *)
(* a set of positions <<tab, row>>, ordered by tab and then by row.        *)

RefRows(doc) ==
    IF doc.kind # "object" THEN {}
    ELSE {p \in UNION {{<<t, r>> : r \in 0..(Len(doc.tabs[t].rows.cells) - 1)} :
                          t \in {u \in 1..Len(doc.tabs) : doc.tabs[u].rows.kind = "array"}} :
             doc.tabs[p[1]].rows.cells[p[2] + 1].kind = "array"}

RefSheet(doc, p) == doc.tabs[p[1]].rows
RefRow(doc, p) == RefSheet(doc, p).cells[p[2] + 1]

RefConcern(row) ==
    IF Len(row.cells) < 2 THEN cellAt(row, 0) ELSE row.cells[2]

RefMaxOf(S) == CHOOSE x \in S : \A y \in S : x >= y

RefBefore(a, b) == a[1] < b[1] \/ (a[1] = b[1] /\ a[2] <= b[2])

\* one entry per array row of an array tab: its position, its normalized
\* concern cell, its score (the greatest over the variants of q0) and, when
\* the score is positive, the answer extracted for it
RefTable(doc, q0) ==
    LET variants == IF q0 = "" THEN {} ELSE SeqRange(expandQueryVariants(q0))
        entry(p) ==
            LET concern == norm(RefConcern(RefRow(doc, p)))
                score == RefMaxOf({0} \cup {scoreMatch(concern, v) : v \in variants})
            IN [pos |-> p,
                concern |-> concern,
                score |-> score,
                answer |-> IF score > 0
                           THEN extractMatrixSteps(RefSheet(doc, p),
                                    detectHeaderRowIndex(RefSheet(doc, p)), p[2])
                           ELSE NoAnswer]
    IN {entry(p) : p \in RefRows(doc)}

\* the rows that produce a candidate: positive score and an answer
RefCandidates(table) == {e \in table : e.score > 0 /\ e.answer.found}

RefFirst(S) == CHOOSE a \in S : \A b \in S : RefBefore(a.pos, b.pos)

\* the returned hit is the row of entry e
RefHitIs(doc, hit, e) ==
    /\ hit.found
    /\ hit.sheetName = doc.tabs[e.pos[1]].name
    /\ hit.rowIndex = e.pos[2]

\* C1: when the normalized question is non-empty and equals the normalized
\* concern cell of a row with an extractable answer, the search returns a
\* candidate with score 100, and it is the first row, in tab order then row
\* order, that scores 100 and has an extractable answer.
C1_ExactMatchWins ==
    callPc = "out" =>
        LET doc == callArgs.doc
            q0 == norm(callArgs.question)
            cands == RefCandidates(RefTable(doc, q0))
            exact == {e \in cands : e.concern = q0}
            full == {e \in cands : e.score = 100}
        IN exact # {} =>
              /\ callRet.bestHit.found
              /\ callRet.bestHit.score = 100
              /\ RefHitIs(doc, callRet.bestHit, RefFirst(full))

\* two rows score 100: an alias row stands before the row equal to the
\* question and is the one returned
C1_Witness ==
    /\ callPc = "out"
    /\ callArgs.question = "Double charged!"
    /\ callArgs.doc = DocOf(<<RowHeader, RowAlias, RowExact>>)
    /\ callRet.bestHit.found
    /\ callRet.bestHit.score = 100
    /\ callRet.bestHit.rowIndex = 1
    /\ callRet.bestHit.answer = "Slack: Yes"

\* C2: the search returns the candidate of strictly highest score, the
\* first found among equals; none only when no row produced a candidate;
\* it applies no threshold of its own.
C2_BestCandidateFirstFound ==
    callPc = "out" =>
        LET doc == callArgs.doc
            cands == RefCandidates(RefTable(doc, norm(callArgs.question)))
            top == RefMaxOf({e.score : e \in cands})
            first == RefFirst({e \in cands : e.score = top})
        IN IF cands = {} THEN ~callRet.bestHit.found
           ELSE /\ RefHitIs(doc, callRet.bestHit, first)
                /\ callRet.bestHit.score = top
                /\ callRet.bestHit.answer = trim(first.answer.text)

\* two candidates tie below the threshold of 70; the earlier is returned
C2_Witness ==
    /\ callPc = "out"
    /\ callArgs.question = "charged the guest"
    /\ callArgs.doc = DocOf(<<RowTokens, BreakItem, RowTokens>>)
    /\ callRet.bestHit.found
    /\ callRet.bestHit.score = 65
    /\ callRet.bestHit.sheetName = "Tab1"

\* C9: the search never throws; it ends with a candidate or none, and a
\* malformed tab or row keeps no well-formed row, before or after it, from
\* being scored and returned.
C9_NeverRaisesSkipsMalformed ==
    callPc = "out" =>
        LET doc == callArgs.doc
            q0 == norm(callArgs.question)
            table == RefTable(doc, q0)
        IN /\ callRet.status = "returned"
           /\ (doc.kind = "object" /\ q0 # "") =>
                 /\ callRet.tabsEntered = Len(doc.tabs)
                 /\ callRet.rowsScored = {e.pos : e \in {x \in table : x.concern # ""}}
                 /\ \A e \in RefCandidates(table) :
                       /\ callRet.bestHit.found
                       /\ callRet.bestHit.score >= e.score

\* a non-array tab and a non-array row stand before the row returned
C9_Witness ==
    /\ callPc = "out"
    /\ callArgs.question = "Double charged!"
    /\ callArgs.doc = DocOf(<<BadTabItem, NullValue, RowExact>>)
    /\ callRet.status = "returned"
    /\ callRet.bestHit.found
    /\ callRet.bestHit.sheetName = "Tab3"
    /\ callRet.bestHit.rowIndex = 1

\* C10: a question that normalizes to the empty string returns none without
\* expanding variants, without entering a tab and without throwing.
C10_EmptyQuestionReturnsNone ==
    (callPc = "out" /\ norm(callArgs.question) = "") =>
        /\ callRet.status = "returned"
        /\ ~callRet.bestHit.found
        /\ ~callRet.expanded
        /\ callRet.tabsEntered = 0
        /\ callRet.rowsScored = {}

\* a punctuation-only question over a document with a scorable row
C10_Witness ==
    /\ callPc = "out"
    /\ callArgs.question = "?!"
    /\ callArgs.doc = DocOf(<<RowExact>>)
    /\ callRet = ScanReturnedNone


-----------------------------------------------------------------------------
(* The decision policy of handleAsk.                                       *)

AskRecords == {asks[i] : i \in 1..Len(asks)}

\* the cached matrix held a candidate scoring at least 70 for the question
RefAuthoritative(a) == a.cachedHit.found /\ a.cachedHit.score >= 70

\* the request was answered once, with the candidate's answer, by the matrix
RefServedDirect(a) ==
    /\ a.responses = 1
    /\ a.response.status = 200
    /\ a.response.provider = "matrix"
    /\ a.response.answer = a.cachedHit.answer
    /\ a.providerCalls = 0

\* C3 as stated: every /ask request with a non-empty question for which
\* findDirectMatrixAnswer on the cached matrix returns a candidate scoring
\* >= 70 is answered with that candidate's answer, provider "matrix", and no
\* provider call - whatever its mode and whatever keys are configured.
C3_DirectAnswerWhateverModeAndKeys ==
    \A a \in AskRecords :
        (a.question # "" /\ RefAuthoritative(a)) => RefServedDirect(a)

\* C3 as amended: every /ask request with a non-empty question whose mode
\* is not "local", on a server whose configured provider's API key is set,
\* for which findDirectMatrixAnswer on the cached matrix returns a candidate
\* scoring >= 70 is answered with that candidate's answer text, provider
\* "matrix", and no generative provider is called.
C3_DirectAnswerServed ==
    \A a \in AskRecords :
        ( /\ a.question # ""
          /\ a.mode # "local"
          /\ AI_PROVIDER \in API_KEYS
          /\ RefAuthoritative(a) ) => RefServedDirect(a)

C3_Witness ==
    \E a \in AskRecords :
        /\ a.question = "Double charged!" /\ a.mode = "cloud"
        /\ a.cachedHit.score = 85
        /\ a.response = okResponse("matrix", "Check folio\n\nSlack: Yes",
                            [tab |-> "Matrix", row |-> 2,
                             concernColumn |-> "B", answerColumn |-> "C"])
        /\ a.providerCalls = 0

\* C4: a generative provider is called for a request only after
\* findDirectMatrixAnswer has returned none or a candidate scoring below 70
\* for that request, and no request both gets a provider "matrix" answer
\* and triggers a provider call.
C4_ProviderOnlyAfterWeakLookup ==
    \A a \in AskRecords :
        /\ a.providerCalls > 0 =>
              /\ a.lookedUp
              /\ a.direct = a.cachedHit
              /\ ~a.direct.found \/ a.direct.score < 70
        /\ ~(a.response.provider = "matrix" /\ a.providerCalls > 0)

C4_Witness ==
    \E a \in AskRecords :
        /\ a.lookedUp /\ a.direct.found /\ a.direct.score = 55
        /\ a.providerCalls = 1
        /\ a.response = okResponse(AI_PROVIDER, "AI answer", <<>>)

-----------------------------------------------------------------------------
(* Harness for repeated invocations of findDirectMatrixAnswer on the       *)
(* server's cache: the document is DOCUMENT_CACHE.matrix, passed by        *)
(* reference, and callArgs keeps the globals as they were before the       *)
(* first invocation.                                                       *)

PureCaches ==
    {EmptyCache} \cup
    {[keys |-> {"matrix"}, matrix |-> d] :
        d \in MatrixDocs \cup {DocOf(<<RowHeader, RowAlias, RowExact>>),
                               DocOf(<<RowTokens, BreakItem, RowTokens>>),
                               DocOf(<<BadTabItem, NullValue, RowExact>>)}}

\* the loader's globals while a matrix can be in the cache
PureLoaderStates ==
    {[loading |-> TRUE, lastLoad |-> 0], [loading |-> TRUE, lastLoad |-> 1],
     [loading |-> FALSE, lastLoad |-> 1]}

InitPure ==
    /\ ReviewsIdle
    /\ callPc = "in"
    /\ callRet = <<>>
    /\ AI_PROVIDER = "anthropic" /\ API_KEYS = {"anthropic"}
    /\ loads = <<>> /\ asks = <<>> /\ reloads = <<>>
    /\ \E cache \in PureCaches, q \in FindQuestions, g \in PureLoaderStates :
          /\ DOCUMENT_CACHE = cache
          /\ DOCS_LOADING = g.loading
          /\ LAST_LOAD = g.lastLoad
          /\ callArgs = [question |-> q, cache |-> cache, loading |-> g.loading,
                         lastLoad |-> g.lastLoad]

\* findDirectMatrixAnswer(DOCUMENT_CACHE.matrix, question), a first and a
\* second time
InvokeFindDirectMatrixAnswer ==
    /\ callPc \in {"in", "once"}
    /\ callPc' = IF callPc = "in" THEN "once" ELSE "twice"
    /\ LET scan == findDirectMatrixAnswer(DOCUMENT_CACHE.matrix, callArgs.question)
       IN /\ callRet' = Append(callRet, scan.bestHit)
          /\ DOCUMENT_CACHE' =
                [DOCUMENT_CACHE EXCEPT !.matrix = matrixDocAfter(@, scan)]
    /\ UNCHANGED <<callArgs, AI_PROVIDER, API_KEYS, LAST_LOAD, DOCS_LOADING, loads, asks,
                   reloads, reviewVars>>

NextPure == InvokeFindDirectMatrixAnswer

SpecPure == InitPure /\ [][NextPure]_vars

-----------------------------------------------------------------------------
(* The matrix a lookup reads during a reload.                              *)

\* the mappings the reload can publish: the tabs of the spreadsheet that
\* loaded, in the spreadsheet's order
RefPostReload ==
    {[kind |-> "object",
      tabs |-> [i \in 1..Cardinality(S) |->
                   SpreadsheetAtReload[CHOOSE j \in S :
                       Cardinality({h \in S : h < j}) = i - 1]]] :
        S \in SUBSET (1..Len(SpreadsheetAtReload))}

RefMatrixStageOver == \A k \in 1..Len(loads) : loads[k].step > 0

\* C12: under any interleaving of /ask requests with a reload, the matrix a
\* findDirectMatrixAnswer invocation scans is entirely the mapping cached
\* before the reload or entirely the mapping the reload built, never a
\* mixture of tabs or rows from both: DOCUMENT_CACHE.matrix is the old
\* mapping until loadMatrixSheets has returned and a whole new one after,
\* and every lookup's result is the result on one of the two.
C12_SingleSnapshot ==
    /\ \/ DOCUMENT_CACHE.matrix = MatrixBeforeReload
       \/ RefMatrixStageOver /\ DOCUMENT_CACHE.matrix \in RefPostReload
    /\ \A a \in AskRecords :
          a.lookedUp =>
             a.direct \in {findDirectMatrixAnswer(d, a.question).bestHit :
                              d \in {MatrixBeforeReload} \cup RefPostReload}

\* a request answered from the old mapping while the loader holds a
\* half-built new one
C12_Witness ==
    /\ Len(loads) = 1 /\ loads[1].step = 0
    /\ Len(loads[1].out.tabs) = 1 /\ Len(loads[1].pending) = 1
    /\ DOCUMENT_CACHE.matrix = MatrixBeforeReload
    /\ \E a \in AskRecords :
          /\ a.lookedUp /\ a.direct.score = 85 /\ a.direct.sheetName = "Voice"
          /\ a.response.provider = "matrix"

-----------------------------------------------------------------------------
(* Harness for norm, isNoValue and normalizeYesNo: the value is null,      *)
(* undefined or a string; the strings are all those of a bounded length    *)
(* over a small alphabet, and the words the three functions compare with,  *)
(* plain and decorated.                                                    *)

MaxTextLen == 3

TextAlphabet == {"a", "N", "0", " ", "\t", "/"}

RECURSIVE StringsUpTo(_)
StringsUpTo(n) ==
    IF n = 0 THEN {""}
    ELSE LET shorter == StringsUpTo(n - 1)
         IN shorter \cup {c \o t : c \in TextAlphabet, t \in {u \in shorter : Len(u) = n - 1}}

TextWords ==
    {"no", "No.", "n", "none", " None ", "na", "N/A", "n a", "n / a", "n/a", "false",
     "FALSE", "y", "Y", "yes", "Yes!", "true", " True", "1", "nope", "#billing",
     " #Billing! ", "Ask  Lead", "a - b"}

TextValues ==
    {NullValue, UndefinedValue} \cup
    {StringValue(t) : t \in StringsUpTo(MaxTextLen) \cup TextWords}

InitText ==
    /\ ServerIdle
    /\ ReviewsIdle
    /\ callPc = "in"
    /\ callArgs \in [fn : {"norm", "isNoValue", "normalizeYesNo"}, v : TextValues]
    /\ callRet = <<>>

CallNorm ==
    /\ callPc = "in" /\ callArgs.fn = "norm"
    /\ callPc' = "out"
    /\ callRet' = norm(stringOrEmpty(callArgs.v))
    /\ UNCHANGED <<callArgs, serverVars, reviewVars>>

CallIsNoValue ==
    /\ callPc = "in" /\ callArgs.fn = "isNoValue"
    /\ callPc' = "out"
    /\ callRet' = isNoValue(stringOrEmpty(callArgs.v))
    /\ UNCHANGED <<callArgs, serverVars, reviewVars>>

CallNormalizeYesNo ==
    /\ callPc = "in" /\ callArgs.fn = "normalizeYesNo"
    /\ callPc' = "out"
    /\ callRet' = normalizeYesNo(stringOrEmpty(callArgs.v))
    /\ UNCHANGED <<callArgs, serverVars, reviewVars>>

NextText == CallNorm \/ CallIsNoValue \/ CallNormalizeYesNo

SpecText == InitText /\ [][NextText]_vars

-----------------------------------------------------------------------------
(* Reference definitions for the text claims, stated over character        *)
(* positions.                                                              *)

RefIsWhite(c) == c = " " \/ c = "\t" \/ c = "\n"

\* the text of a value: nothing for null and undefined
RefText(v) == IF v = NullValue \/ v = UndefinedValue THEN "" ELSE v.text

RefLowerOf(c) ==
    IF \E i \in 1..26 : CharAt(UpperCaseLetters, i) = c
    THEN CharAt(LowerCaseLetters, CHOOSE i \in 1..26 : CharAt(UpperCaseLetters, i) = c)
    ELSE c

\* lower-cased, without the characters that are not letters, digits or
\* whitespace
RECURSIVE RefKept(_)
RefKept(s) ==
    IF Len(s) = 0 THEN ""
    ELSE LET c == CharAt(s, Len(s))
         IN RefKept(SubSeq(s, 1, Len(s) - 1)) \o
               (IF RefIsWhite(c) \/ c \in UpperSet \cup LowerSet \cup DigitSet
                THEN RefLowerOf(c) ELSE "")

\* the spans of the maximal runs of non-whitespace characters of s
RefWordSpans(s) ==
    {sp \in (1..Len(s)) \X (1..Len(s)) :
        /\ sp[1] <= sp[2]
        /\ \A k \in sp[1]..sp[2] : ~RefIsWhite(CharAt(s, k))
        /\ (sp[1] = 1 \/ RefIsWhite(CharAt(s, sp[1] - 1)))
        /\ (sp[2] = Len(s) \/ RefIsWhite(CharAt(s, sp[2] + 1)))}

\* the words of s from the k-th on, with one space between two words
RECURSIVE RefJoinedFrom(_, _)
RefJoinedFrom(s, k) ==
    LET spans == RefWordSpans(s)
        later == {sp \in spans : Cardinality({o \in spans : o[1] < sp[1]}) >= k - 1}
    IN IF later = {} THEN ""
       ELSE LET sp == CHOOSE x \in later : \A o \in later : x[1] <= o[1]
            IN SubSeq(s, sp[1], sp[2]) \o
                  (IF Cardinality(later) > 1 THEN " " ELSE "") \o RefJoinedFrom(s, k + 1)

\* lower-case, remove what is not a letter, a digit or whitespace, collapse
\* the whitespace runs and trim
RefNorm(s) == RefJoinedFrom(RefKept(s), 1)

RefInNormalForm(s) ==
    /\ \A i \in 1..Len(s) : CharAt(s, i) \in LowerSet \cup DigitSet \cup {" "}
    /\ s # "" => (CharAt(s, 1) # " " /\ CharAt(s, Len(s)) # " ")
    /\ \A i \in 1..(Len(s) - 1) : ~(CharAt(s, i) = " " /\ CharAt(s, i + 1) = " ")

\* s without its leading and trailing whitespace, otherwise unchanged
RefTrimmed(s) ==
    LET solid == {i \in 1..Len(s) : ~RefIsWhite(CharAt(s, i))}
    IN IF solid = {} THEN ""
       ELSE SubSeq(s, CHOOSE i \in solid : \A j \in solid : i <= j,
                      CHOOSE i \in solid : \A j \in solid : i >= j)

\* C13: for every input value, norm(value) is in normal form (lower-case
\* letters, digits and single spaces, no leading or trailing space, no run of
\* spaces) and equals the reference that lower-cases, removes every
\* character that is not a letter, digit or whitespace, collapses whitespace
\* runs and trims; null, undefined and empty input give the empty string.
C13_NormIsNormalForm ==
    (callPc = "out" /\ callArgs.fn = "norm") =>
        /\ RefInNormalForm(callRet)
        /\ callRet = RefNorm(RefText(callArgs.v))
        /\ RefText(callArgs.v) = "" => callRet = ""

RefNoForms == {"", "no", "n", "none", "na", "n a", "0", "false"}

\* C14: isNoValue(v) is true exactly when norm(v) is one of the empty
\* string, "no", "n", "none", "na", "n a", "0", "false".
C14_IsNoValueExactly ==
    (callPc = "out" /\ callArgs.fn = "isNoValue") =>
        (callRet = TRUE <=> norm(RefText(callArgs.v)) \in RefNoForms)

C14_Witness ==
    /\ callPc = "out" /\ callArgs.fn = "isNoValue"
    /\ callArgs.v = StringValue(" None ")
    /\ callRet = TRUE

\* C15: normalizeYesNo(v) returns "Yes" when norm(v) is y, yes, true or 1,
\* "No" when norm(v) is n, no, false or 0, and otherwise the original value
\* trimmed and otherwise unchanged (casing and punctuation preserved).
C15_NormalizeYesNo ==
    (callPc = "out" /\ callArgs.fn = "normalizeYesNo") =>
        LET s == norm(RefText(callArgs.v))
        IN callRet = IF s \in {"y", "yes", "true", "1"} THEN "Yes"
                     ELSE IF s \in {"n", "no", "false", "0"} THEN "No"
                     ELSE RefTrimmed(RefText(callArgs.v))

C15_Witness ==
    /\ callPc = "out" /\ callArgs.fn = "normalizeYesNo"
    /\ callArgs.v = StringValue(" #Billing! ")
    /\ callRet = "#Billing!"

-----------------------------------------------------------------------------
(* Harness for expandQueryVariants: normalized questions made of the words *)
(* of the alias phrases, and the phrases themselves.                       *)

MaxVariantTokens == 3

VariantTokens == {"double", "charged", "charge", "twice", "duplicate", "early", "departure"}

VariantPhrases ==
    {"", " ", "early departure after check in", "early departure after checkin",
     "guest was double charged", "no show"}

VariantQueries ==
    {joinWith(ts, " ") : ts \in UNION {[1..k -> VariantTokens] : k \in 0..MaxVariantTokens}}
        \cup VariantPhrases

InitVariants ==
    /\ ServerIdle
    /\ ReviewsIdle
    /\ callPc = "in"
    /\ callArgs \in [q : VariantQueries]
    /\ callRet = <<>>

CallExpandQueryVariants ==
    /\ callPc = "in"
    /\ callPc' = "out"
    /\ callRet' = expandQueryVariants(callArgs.q)
    /\ UNCHANGED <<callArgs, serverVars, reviewVars>>

NextVariants == CallExpandQueryVariants

SpecVariants == InitVariants /\ [][NextVariants]_vars

RefChargeAliases == {"double charged", "charged twice", "double charge", "duplicate charge"}
RefChargeTriggers == {"double charged", "charged twice", "double charge"}
RefDepartureAliases == {"early departure after check in", "early departure after checkin"}

RefVariants(q) ==
    {q} \cup (IF \E t \in RefChargeTriggers : RefContains(q, t) THEN RefChargeAliases ELSE {})
        \cup (IF RefContains(q, "early departure") THEN RefDepartureAliases ELSE {})

\* C16: for a non-empty normalized q, expandQueryVariants(q) is a
\* duplicate-free collection of non-empty strings holding q, the four
\* charge aliases exactly when q contains "double charged", "charged twice"
\* or "double charge", the two normalized early-departure phrases exactly
\* when q contains "early departure", and nothing else.
C16_VariantsExactly ==
    (callPc = "out" /\ callArgs.q # "") =>
        /\ \A i, j \in 1..Len(callRet) : i # j => callRet[i] # callRet[j]
        /\ \A i \in 1..Len(callRet) : callRet[i] # ""
        /\ {callRet[i] : i \in 1..Len(callRet)} = RefVariants(callArgs.q)

\* the question is itself one of the aliases it triggers
C16_Witness ==
    /\ callPc = "out"
    /\ callArgs.q = "double charged"
    /\ callRet = <<"double charged", "charged twice", "duplicate charge", "double charge">>

-----------------------------------------------------------------------------
(* Harness for detectHeaderRowIndex: a sheet of plain rows in which up to  *)
(* two positions hold another row, at the start of the sheet, at the scan  *)
(* limit and at the end of the sheet.                                      *)

MaxSheetRows == 42

PlainRow == ArrayOf(<<"4", "Late arrival">>)

MarkedRows ==
    {ArrayOf(<<"#", "Concern", "Steps">>),
     ArrayOf(<<"Known ISSUES!">>),
     ArrayOf(<<"", "", "Agent  Instructions:">>),
     ArrayOf(<<"con", "cern">>),
     ArrayOf(<<"is", "sue |">>),
     ArrayOf(<<>>),
     NullValue,
     PlainRow}

SheetLengths == {0, 1, 2, HEADER_MAX_SCAN, HEADER_MAX_SCAN + 1, MaxSheetRows}
SheetPositions == {0, 1, HEADER_MAX_SCAN - 1, HEADER_MAX_SCAN, MaxSheetRows - 1}

SheetWith(n, p1, r1, p2, r2) ==
    ArrayOf([i \in 1..n |-> IF i = p1 + 1 THEN r1 ELSE IF i = p2 + 1 THEN r2 ELSE PlainRow])

HeaderSheets ==
    {SheetWith(n, p1, r1, p2, r2) :
        n \in SheetLengths, p1 \in SheetPositions, r1 \in MarkedRows,
        p2 \in SheetPositions, r2 \in MarkedRows}

InitHeader ==
    /\ ServerIdle
    /\ ReviewsIdle
    /\ callPc = "in"
    /\ callArgs \in [rows : HeaderSheets]
    /\ callRet = -1

CallDetectHeaderRowIndex ==
    /\ callPc = "in"
    /\ callPc' = "out"
    /\ callRet' = detectHeaderRowIndex(callArgs.rows)
    /\ UNCHANGED <<callArgs, serverVars, reviewVars>>

NextHeader == CallDetectHeaderRowIndex

SpecHeader == InitHeader /\ [][NextHeader]_vars

RefHeaderWords == {"instructions", "concern", "issue"}

\* an array with some cell whose normalization contains one of the words
RefQualifies(row) ==
    /\ row.kind = "array"
    /\ \E i \in 1..Len(row.cells) :
          \E w \in RefHeaderWords : RefContains(norm(row.cells[i]), w)

RefQualifying(rows) ==
    {r \in 0..(Len(rows.cells) - 1) : r < 40 /\ RefQualifies(rows.cells[r + 1])}

\* C17: detectHeaderRowIndex(rows) returns the least index r below
\* min(40, number of rows) at which rows[r] is an array with a cell whose
\* normalization contains "instructions", "concern" or "issue", and -1 when
\* there is none among the first 40; a qualifying row at index 40 or later
\* is never returned.
C17_FirstHeaderWithinForty ==
    callPc = "out" =>
        LET Q == RefQualifying(callArgs.rows)
        IN /\ callRet < 40
           /\ IF Q = {} THEN callRet = -1
              ELSE callRet \in Q /\ \A r \in Q : callRet <= r

\* the only qualifying rows are at index 40 and beyond
C17_Witness ==
    /\ callPc = "out"
    /\ Len(callArgs.rows.cells) > 40
    /\ RefQualifies(callArgs.rows.cells[41])
    /\ callRet = -1

-----------------------------------------------------------------------------
(* The worked example, the citation of a direct answer, and the concern    *)
(* cells that read as "no value".                                          *)

\* C18: on the worked example no alias expansion fires, the search returns
\* a candidate for row index 1 of tab "Matrix" found by the token-overlap
\* tier, and its answer is "Issue refund via Billing Queue", a blank line,
\* "Slack: Yes", with no Refund Queue line.
C18_WorkedExample ==
    (callPc = "out" /\ callArgs = WorkedExample) =>
        LET q0 == norm(callArgs.question)
            concern == norm("Guest was double charged")
        IN /\ callRet.queries = <<q0>>
           /\ callRet.bestHit.found
           /\ callRet.bestHit.sheetName = "Matrix"
           /\ callRet.bestHit.rowIndex = 1
           /\ RefTokenTier(concern, q0)
           /\ callRet.bestHit.score = RefScore(concern, q0)
           /\ callRet.bestHit.score \in 45..80
           /\ callRet.bestHit.answer = "Issue refund via Billing Queue\n\nSlack: Yes"

C18_Witness ==
    /\ callPc = "out"
    /\ callArgs = WorkedExample
    /\ callRet.bestHit.score = 65
    /\ callRet.bestHit.matchedText = "Guest was double charged"

\* C19: a served direct answer's citation reports the candidate's tab, its
\* row index plus one, and the concern column as "B" only when the
\* candidate's column index is 1.
C19_CitationColumn ==
    \A a \in AskRecords :
        a.response.provider = "matrix" =>
            /\ a.response.citation.tab = a.direct.sheetName
            /\ a.response.citation.row = a.direct.rowIndex + 1
            /\ a.response.citation.concernColumn = "B" => a.direct.colIndex = 1

RefAbsentForms == {"no", "n", "none", "na", "n a", "0", "false"}

\* C20: the search skips a row only when its concern cell normalizes to the
\* empty string: a row whose concern normalizes to a "no value" form is
\* scored like any other and, when it equals the question and has an
\* answer, is returned with score 100.
C20_ConcernEmptinessOnly ==
    (callPc = "out" /\ callArgs.doc.kind = "object" /\ norm(callArgs.question) # "") =>
        LET doc == callArgs.doc
            q0 == norm(callArgs.question)
        IN \A p \in RefRows(doc) :
              LET concern == norm(RefConcern(RefRow(doc, p)))
              IN /\ p \in callRet.rowsScored <=> concern # ""
                 /\ ( /\ concern \in RefAbsentForms
                      /\ concern = q0
                      /\ extractMatrixSteps(RefSheet(doc, p),
                            detectHeaderRowIndex(RefSheet(doc, p)), p[2]).found )
                    => (callRet.bestHit.found /\ callRet.bestHit.score = 100)

\* a row with concern "N/A" is the returned candidate
C20_Witness ==
    /\ callPc = "out"
    /\ callArgs.question = "n/a"
    /\ callArgs.doc = DocOf(<<RowPunct, RowNA>>)
    /\ callRet.rowsScored = {<<1, 1>>}
    /\ callRet.bestHit.found
    /\ callRet.bestHit.rowIndex = 1
    /\ callRet.bestHit.matchedText = "N/A"
    /\ callRet.bestHit.answer = "Escalate"


-----------------------------------------------------------------------------
(* Harness for buildHeaderMap: the header row is null, undefined, an       *)
(* object, or an array of labels, some of them equal after normalization;  *)
(* and for extractMatrixSteps on sheets with and without a header row,     *)
(* called with the header index detectHeaderRowIndex gives.                *)

MaxHeaderCells == 3

HeaderLabels == {"Slack", " slack!", "", "Issue", "?"}

RECURSIVE LabelRowsUpTo(_)
LabelRowsUpTo(n) ==
    IF n = 0 THEN {<<>>}
    ELSE LET shorter == LabelRowsUpTo(n - 1)
         IN shorter \cup {Append(r, l) : r \in {s \in shorter : Len(s) = n - 1},
                                         l \in HeaderLabels}

HeaderRowValues ==
    {NullValue, UndefinedValue, ObjectValue} \cup
    {ArrayOf(r) : r \in LabelRowsUpTo(MaxHeaderCells)}

FlaggedRows ==
    {ArrayOf(<<"1", "charged", c, f>>) : c \in {"", " Refund ", "N/A"},
                                         f \in {"Yes", "No", "#billing"}}

\* a sheet of one data row, alone or under a header row naming the flag column
FlaggedSheets ==
    {ArrayOf(<<row>>) : row \in FlaggedRows} \cup
    {ArrayOf(<<ArrayOf(<<"#", "Issue", "Steps", "Slack">>), row>>) : row \in FlaggedRows}

InitHeaderMap ==
    /\ ServerIdle
    /\ ReviewsIdle
    /\ callPc = "in"
    /\ callArgs \in [fn : {"buildHeaderMap"}, headerRow : HeaderRowValues] \cup
                    [fn : {"extractMatrixSteps"}, rows : FlaggedSheets]
    /\ callRet = <<>>

CallBuildHeaderMap ==
    /\ callPc = "in" /\ callArgs.fn = "buildHeaderMap"
    /\ callPc' = "out"
    /\ callRet' = buildHeaderMap(callArgs.headerRow)
    /\ UNCHANGED <<callArgs, serverVars, reviewVars>>

\* the call of line 655 on the last row of the sheet
CallExtractAfterDetect ==
    /\ callPc = "in" /\ callArgs.fn = "extractMatrixSteps"
    /\ callPc' = "out"
    /\ callRet' = extractMatrixSteps(callArgs.rows, detectHeaderRowIndex(callArgs.rows),
                                     lengthOf(callArgs.rows) - 1)
    /\ UNCHANGED <<callArgs, serverVars, reviewVars>>

NextHeaderMap == CallBuildHeaderMap \/ CallExtractAfterDetect

SpecHeaderMap == InitHeaderMap /\ [][NextHeaderMap]_vars

\* the 0-based positions of the row whose label normalizes to h
RefLabelPositions(headerRow, h) ==
    {i \in 0..(Len(headerRow.cells) - 1) : norm(headerRow.cells[i + 1]) = h}

RefHeaderLabels(headerRow) ==
    {norm(headerRow.cells[i]) : i \in 1..Len(headerRow.cells)} \ {""}

RefLeast(S) == CHOOSE i \in S : \A j \in S : i <= j

\* C21: buildHeaderMap maps each non-empty normalized label of the row to the
\* index of its first occurrence, and is empty when the row is absent or not
\* an array; without a header row extractMatrixSteps returns column C alone
\* or no answer, never a flag line.
C21_HeaderMapFirstWins ==
    callPc = "out" =>
        /\ (callArgs.fn = "buildHeaderMap" /\ callArgs.headerRow.kind # "array")
              => callRet = EmptyMap
        /\ (callArgs.fn = "buildHeaderMap" /\ callArgs.headerRow.kind = "array")
              => /\ DOMAIN callRet = RefHeaderLabels(callArgs.headerRow)
                 /\ \A h \in DOMAIN callRet :
                       callRet[h] = RefLeast(RefLabelPositions(callArgs.headerRow, h))
        /\ (callArgs.fn = "extractMatrixSteps" /\ Len(callArgs.rows.cells) = 1)
              => LET colC == callArgs.rows.cells[1].cells[3]
                 IN callRet = IF colC = " Refund " THEN AnswerText("Refund") ELSE NoAnswer

\* a header row whose first and second labels normalize alike, with a third
\* label after them
C21_Witness ==
    /\ callPc = "out"
    /\ callArgs.fn = "buildHeaderMap"
    /\ callArgs.headerRow = ArrayOf(<<" slack!", "Slack", "Issue">>)
    /\ callRet = [x \in {"slack", "issue"} |-> IF x = "slack" THEN 0 ELSE 2]


-----------------------------------------------------------------------------
(* Harness for the score of one row (server.js 639-648): a concern cell    *)
(* and a question, as the row loop has them when the cell normalizes to    *)
(* something and the question too.                                         *)

ConcernCells ==
    {"Double charged", "charged twice please", "Duplicate charge.", "double charge",
     "Guest charged", "charged", "Early departure after check-in", "early departure",
     "Late arrival", "twice", "guest was charged twice today"}

RowQuestions ==
    {"Double charged!", "guest double charged", "I was charged twice", "double charge",
     "Early departure", "early departure fee", "Guest charged", "late", "charged",
     "duplicate charge"}

InitRowScore ==
    /\ ServerIdle
    /\ ReviewsIdle
    /\ callPc = "in"
    /\ callArgs \in [cell : ConcernCells, question : RowQuestions]
    /\ callRet = <<>>

\* lines 639-648 for one cell: the variants of the question, then the loop
CallRowScore ==
    /\ callPc = "in"
    /\ norm(callArgs.question) # "" /\ ~concernIsEmpty(norm(callArgs.cell))
    /\ callPc' = "out"
    /\ callRet' = bestVariantScore(norm(callArgs.cell),
                                   expandQueryVariants(norm(callArgs.question)), 1, 0)
    /\ UNCHANGED <<callArgs, serverVars, reviewVars>>

NextRowScore == CallRowScore

SpecRowScore == InitRowScore /\ [][NextRowScore]_vars

RefGreatest(S) == CHOOSE x \in S : \A y \in S : y <= x

\* C22: the score of a row is the greatest scoreMatch(concern cell, v) over
\* all the variants v of the question, the early exit at 100 changing
\* nothing; it is 100 exactly when the normalized concern cell is one of the
\* variants.
C22_RowScoreIsMaximum ==
    callPc = "out" =>
        LET cellNorm == norm(callArgs.cell)
            variants == RefVariants(norm(callArgs.question))
        IN /\ callRet = RefGreatest({scoreMatch(cellNorm, v) : v \in variants})
           /\ callRet = 100 <=> cellNorm \in variants

\* the cell equals an alias variant that is not the question, after variants
\* that score 0
C22_Witness ==
    /\ callPc = "out"
    /\ callArgs = [cell |-> "Duplicate charge.", question |-> "Double charged!"]
    /\ callRet = 100


-----------------------------------------------------------------------------
(* The shape of a returned candidate.                                      *)

\* the tabs of the document that carry the name
RefTabsNamed(doc, name) == {t \in 1..Len(doc.tabs) : doc.tabs[t].name = name}

\* C23: a returned candidate has a positive score and a non-empty answer; its
\* rowIndex is an array row of the tab it names, its columnIndex is 1, or 0
\* when that row has fewer than 2 cells, the cell there normalizes to
\* something, and the row scores above 0 and has an extractable answer.
C23_CandidateWellFormed ==
    (callPc = "out" /\ callRet.bestHit.found) =>
        LET doc == callArgs.doc
            hit == callRet.bestHit
            table == RefTable(doc, norm(callArgs.question))
        IN /\ hit.score > 0
           /\ hit.answer # ""
           /\ \E t \in RefTabsNamed(doc, hit.sheetName) :
                 LET p == <<t, hit.rowIndex>>
                 IN /\ p \in RefRows(doc)
                    /\ hit.colIndex = IF Len(RefRow(doc, p).cells) < 2 THEN 0 ELSE 1
                    /\ norm(cellAt(RefRow(doc, p), hit.colIndex)) # ""
                    /\ \E e \in table : e.pos = p /\ e.score = hit.score /\ e.answer.found

\* the candidate is a row of one cell, matched on column 0
C23_Witness ==
    /\ callPc = "out"
    /\ callArgs.doc = MatrixV3
    /\ callRet.bestHit.found
    /\ callRet.bestHit.rowIndex = 1
    /\ callRet.bestHit.colIndex = 0
    /\ callRet.bestHit.score = 100
    /\ callRet.bestHit.answer = "Slack: Double charged"


-----------------------------------------------------------------------------
(* The executions of loadDocuments.                                        *)

\* a reload request has arrived and its loadDocuments(true) found a load in
\* progress
RefReloadArrivesDuringLoad == Len(reloads') = Len(reloads) + 1 /\ DOCS_LOADING

\* C24: at most one execution of loadDocuments is past its guards,
\* DOCS_LOADING is true exactly while one is, and a call that finds
\* DOCS_LOADING true starts nothing and leaves DOCUMENT_CACHE and LAST_LOAD
\* as they are.
C24_SingleLoader ==
    /\ [](Len(loads) <= 1 /\ (DOCS_LOADING <=> Len(loads) = 1))
    /\ [][RefReloadArrivesDuringLoad =>
             /\ DOCUMENT_CACHE' = DOCUMENT_CACHE
             /\ LAST_LOAD' = LAST_LOAD
             /\ loads' = loads /\ DOCS_LOADING']_vars

\* a reload request arrived during the startup load, which is still running
C24_Witness ==
    /\ DOCS_LOADING
    /\ Len(loads) = 1 /\ loads[1].by = "startup"
    /\ Len(reloads) = 1 /\ ~reloads[1].ownLoad
    /\ Len(asks) = 1


-----------------------------------------------------------------------------
(* The loads under fair scheduling: every request made to Google Sheets    *)
(* and every document fetch settles, with a result or an error.  The       *)
(* provider calls of the requests are left pending, and the spreadsheet    *)
(* and the provider configuration are one each: no guard of loadDocuments  *)
(* reads them.                                                             *)

InitLoads == Init /\ AI_PROVIDER = "anthropic"

NextLoads ==
    \/ \E q \in AskQuestions : AskRequest(q, "cloud")
    \/ AdminReload
    \/ \E k \in 1..Len(loads) : MatrixFetched(k, MatrixV1)
    \/ \E k \in 1..Len(loads) : MatrixFetchFails(k)
    \/ \E k \in 1..Len(loads), ok \in BOOLEAN : DocFetchSettles(k, ok)

MatrixFetchSettles ==
    \E k \in 1..Len(loads) : MatrixFetched(k, MatrixV1) \/ MatrixFetchFails(k)

SomeDocFetchSettles == \E k \in 1..Len(loads), ok \in BOOLEAN : DocFetchSettles(k, ok)

SpecLoads ==
    /\ InitLoads
    /\ [][NextLoads]_vars
    /\ WF_vars(MatrixFetchSettles)
    /\ WF_vars(SomeDocFetchSettles)

\* the loads that can finish: the startup load and one per request
MaxFinishedLoads == 1 + MaxAsks + MaxReloads

\* C25: an execution that set DOCS_LOADING clears it and assigns LAST_LOAD,
\* whatever fetch fails; LAST_LOAD is assigned only by an execution that has
\* attempted the matrix and all four documents, and a fetch that fails moves
\* the execution on to the next document like one that succeeds.
C25_LoadEnds ==
    /\ \A n \in 0..MaxFinishedLoads :
          (DOCS_LOADING /\ LAST_LOAD = n) ~> (~DOCS_LOADING /\ LAST_LOAD = n + 1)
    /\ [][LAST_LOAD' # LAST_LOAD =>
             /\ Len(loads) = 1 /\ loads[1].step = Len(OtherDocs)
             /\ ~DOCS_LOADING']_vars
    /\ [][(Len(loads) = 1 /\ loads' # loads /\ asks' = asks /\ reloads' = reloads
             /\ loads[1].step < Len(OtherDocs))
          => (Len(loads') = 1 /\ loads'[1].step = loads[1].step + 1)]_vars

\* a load has ended with the matrix and the first document failed and the
\* last document loaded
C25_Witness ==
    /\ ~DOCS_LOADING /\ LAST_LOAD = 1 /\ loads = <<>>
    /\ DOCUMENT_CACHE.keys = {"rppGuide"}


-----------------------------------------------------------------------------
(* The answers of /admin/reload-docs.                                      *)

\* C26: a reload request that has been answered "Documents reloaded" had a
\* load of its own, started by its call of loadDocuments(true) and ended
\* before the answer.
C26_ReloadCausesLoad ==
    \A i \in 1..Len(reloads) : reloads[i].pc = "responded" => reloads[i].ownLoad


-----------------------------------------------------------------------------
(* The retry of the matrix load by /ask.                                   *)

\* a request with a non-empty question arrives
RefAskArrives == Len(asks') = Len(asks) + 1 /\ asks'[Len(asks')].question # ""

\* C27: a request with a non-empty question that arrives while the matrix is
\* not in the cache and no load is in progress starts a load.
C27_AskRetriesMatrixLoad ==
    [][(RefAskArrives /\ "matrix" \notin DOCUMENT_CACHE.keys /\ ~DOCS_LOADING)
          => (DOCS_LOADING' /\ Len(loads') = 1)]_vars


-----------------------------------------------------------------------------
(* The reviews sheet (lib/googleSheetsReviews.js 26-31, 114-132, 163-256). *)
(* A row keeps the columns the upsert reads or decides: reviewId,          *)
(* callCenter, email, stars, createdAt; name, comment and updatedAt are    *)
(* written as given.  A call runs to its next await in one step; the       *)
(* request it awaits is applied to the sheet in a step of its own.         *)

MaxUpserts == 2

\* norm of googleSheetsReviews.js: String(s || "").trim()
trimmedString(s) == trim(s)

normKey(s) == toLowerCase(trimmedString(s))

\* genId() and nowIso() of call i: values no other call gets
genId(i) == "id" \o CharAt(DigitChars, i + 1)
nowIso(i) == i

ReviewEmails == {"a@x.io", " A@X.IO", ""}
ReviewCallCenters == {"Manila", "manila "}
ReviewStars == {1, 5}

ReviewArgs == [callCenter : ReviewCallCenters, email : ReviewEmails, stars : ReviewStars]

SeedRow ==
    [reviewId |-> "seed", callCenter |-> "Manila", email |-> "A@x.io ", stars |-> 3,
     createdAt |-> 0]

\* the rows as readAllRows returns them
readAllRows(sheet) ==
    [r \in 1..Len(sheet) |->
        [sheet[r] EXCEPT !.reviewId = trimmedString(@),
                         !.callCenter = trimmedString(@),
                         !.email = trimmedString(@)]]

\* rows.findIndex(...): the 0-based index of the first row with the key, or -1
findIndex(rows, keyEmail, keyCC) ==
    LET hits == {r \in 1..Len(rows) :
                    normKey(rows[r].email) = keyEmail /\ normKey(rows[r].callCenter) = keyCC}
    IN IF hits = {} THEN -1 ELSE (CHOOSE r \in hits : \A o \in hits : r <= o) - 1

\* required() and validateEmail() pass
argsAreValid(args) == trimmedString(args.callCenter) # "" /\ trimmedString(args.email) # ""

\* upsertReview is called: it throws on a missing field, or awaits the
\* header row
UpsertReviewCalled(args) ==
    /\ Len(upserts) < MaxUpserts
    /\ upserts' = Append(upserts,
                     [args |-> args,
                      pc |-> IF argsAreValid(args) THEN "header" ELSE "threw",
                      foundIndex |-> -1, row |-> SeedRow, action |-> "none"])
    /\ UNCHANGED <<reviewSheet, harnessVars, serverVars>>

\* ensureHeaderRow resolves; readAllRows sends its request
UpsertHeaderEnsured(i) ==
    /\ upserts[i].pc = "header"
    /\ upserts' = [upserts EXCEPT ![i].pc = "reading"]
    /\ UNCHANGED <<reviewSheet, harnessVars, serverVars>>

\* the sheet answers the read; the call looks for its key and sends the
\* update of the row found, or the append of a new row
UpsertRowsRead(i) ==
    /\ upserts[i].pc = "reading"
    /\ LET args == upserts[i].args
           rows == readAllRows(reviewSheet)
           foundIndex == findIndex(rows, normKey(trimmedString(args.email)),
                                   normKey(trimmedString(args.callCenter)))
           existing == rows[foundIndex + 1]
           written ==
               [reviewId |-> IF foundIndex >= 0 /\ existing.reviewId # ""
                             THEN existing.reviewId ELSE genId(i),
                callCenter |-> trimmedString(args.callCenter),
                email |-> trimmedString(args.email),
                stars |-> args.stars,
                createdAt |-> IF foundIndex >= 0 THEN existing.createdAt ELSE nowIso(i)]
       IN upserts' = [upserts EXCEPT ![i].pc = "writing",
                                     ![i].foundIndex = foundIndex,
                                     ![i].row = written]
    /\ UNCHANGED <<reviewSheet, harnessVars, serverVars>>

\* the sheet applies the write: values.update of row foundIndex + 2, or
\* values.append
UpsertWriteApplied(i) ==
    /\ upserts[i].pc = "writing"
    /\ reviewSheet' = IF upserts[i].foundIndex >= 0
                      THEN [reviewSheet EXCEPT ![upserts[i].foundIndex + 1] = upserts[i].row]
                      ELSE Append(reviewSheet, upserts[i].row)
    /\ upserts' = [upserts EXCEPT
                      ![i].pc = "done",
                      ![i].action = IF upserts[i].foundIndex >= 0 THEN "updated" ELSE "created"]
    /\ UNCHANGED <<harnessVars, serverVars>>

\* a request to the Sheets API rejects: the call throws
UpsertRequestFails(i) ==
    /\ upserts[i].pc \in {"header", "reading", "writing"}
    /\ upserts' = [upserts EXCEPT ![i].pc = "threw"]
    /\ UNCHANGED <<reviewSheet, harnessVars, serverVars>>

InitReviews ==
    /\ HarnessIdle
    /\ ServerIdle
    /\ reviewSheet \in {<<>>, <<SeedRow>>}
    /\ upserts = <<>>

NextReviews ==
    \/ \E args \in ReviewArgs : UpsertReviewCalled(args)
    \/ \E i \in 1..Len(upserts) : UpsertHeaderEnsured(i)
    \/ \E i \in 1..Len(upserts) : UpsertRowsRead(i)
    \/ \E i \in 1..Len(upserts) : UpsertWriteApplied(i)
    \/ \E i \in 1..Len(upserts) : UpsertRequestFails(i)

SpecReviews == InitReviews /\ [][NextReviews]_vars

RefRowKey(row) == <<normKey(row.email), normKey(row.callCenter)>>

\* C28: the sheet never has two rows with the same key
C28_OneRowPerKey ==
    \A a, b \in 1..Len(reviewSheet) :
        a # b => RefRowKey(reviewSheet[a]) # RefRowKey(reviewSheet[b])


-----------------------------------------------------------------------------
(* The header row in the scan.                                             *)

\* the array tabs of the document in which a header row is detected
RefTabsWithHeader(doc) ==
    {t \in 1..Len(doc.tabs) :
        doc.tabs[t].rows.kind = "array" /\ detectHeaderRowIndex(doc.tabs[t].rows) >= 0}

\* C29: the detected header row of a tab is scored when its concern cell
\* normalizes to something, and when the question equals that cell and the
\* row has an answer, the candidate returned scores 100 and is that row
\* unless a row before it scores 100 with an answer.
C29_HeaderRowScored ==
    (callPc = "out" /\ callArgs.doc.kind = "object" /\ norm(callArgs.question) # "") =>
        LET doc == callArgs.doc
            q0 == norm(callArgs.question)
            full == {e \in RefCandidates(RefTable(doc, q0)) : e.score = 100}
        IN \A t \in RefTabsWithHeader(doc) :
              LET p == <<t, detectHeaderRowIndex(doc.tabs[t].rows)>>
                  concern == norm(RefConcern(RefRow(doc, p)))
              IN /\ concern # "" => p \in callRet.rowsScored
                 /\ (concern = q0 /\ \E e \in full : e.pos = p) =>
                       /\ callRet.bestHit.found /\ callRet.bestHit.score = 100
                       /\ (\A e \in full : RefBefore(p, e.pos)) =>
                             /\ callRet.bestHit.sheetName = doc.tabs[t].name
                             /\ callRet.bestHit.rowIndex = p[2]

\* the header row of the sheet is the candidate returned, its own labels the
\* answer
C29_Witness ==
    /\ callPc = "out"
    /\ callArgs.question = "Concern?"
    /\ callArgs.doc = DocOf(<<RowExact, RowHeader>>)
    /\ callRet.bestHit.found
    /\ callRet.bestHit.rowIndex = 1
    /\ callRet.bestHit.score = 100
    /\ callRet.bestHit.answer = "Instructions\n\nSlack: Slack"


-----------------------------------------------------------------------------
(* The requests under fair scheduling: a timer that is armed fires.  The   *)
(* provider may settle or stay pending for ever.                           *)

InitAsks == Init

NextAsks ==
    \/ \E q \in AskQuestions, m \in AskModes : AskRequest(q, m)
    \/ \E i \in 1..Len(asks) : ProviderResolves(i)
    \/ \E i \in 1..Len(asks), st \in {0, 429} : ProviderRejects(i, st)
    \/ \E i \in 1..Len(asks) : TimeoutFires(i)
    \/ \E k \in 1..Len(loads) : MatrixFetched(k, MatrixV1)
    \/ \E k \in 1..Len(loads) : MatrixFetchFails(k)
    \/ \E k \in 1..Len(loads), ok \in BOOLEAN : DocFetchSettles(k, ok)

SomeTimeoutFires == \E i \in 1..Len(asks) : TimeoutFires(i)

SpecAsks == InitAsks /\ [][NextAsks]_vars /\ WF_vars(SomeTimeoutFires)

\* the response of a request whose provider call lost, or won, the race
RefTimedOut(a) == a.response.status = 504 /\ ~a.response.ok
RefProviderAnswered(a) ==
    /\ a.response.provider = AI_PROVIDER
    /\ \/ a.response.status = 200 /\ a.response.ok /\ a.response.answer = "AI answer"
       \/ a.response.status \in {429, 500} /\ ~a.response.ok

\* C30: a request is answered once and never twice; a request whose timer
\* fired with the provider still pending was answered 504, the provider's
\* result afterwards changing nothing; a request whose provider settled with
\* the timer still armed was answered with the provider's answer or error
\* status, 500 by default.
C30_ExactlyOneResponse ==
    /\ [](\A a \in AskRecords :
             /\ a.responses <= 1
             /\ a.pc = "responded" <=> a.responses = 1
             /\ (a.timer = "fired" /\ a.provider = "pending") => RefTimedOut(a)
             /\ (a.provider = "settled" /\ a.timer = "armed") => RefProviderAnswered(a)
             /\ (a.provider = "settled" /\ a.timer = "fired") =>
                   (RefTimedOut(a) \/ RefProviderAnswered(a)))
    /\ [][\A i \in 1..Len(asks) :
             asks[i].responses = 1 => asks'[i].response = asks[i].response]_vars
    /\ \A i \in 1..MaxAsks :
          (Len(asks) >= i) ~> (Len(asks) >= i /\ asks[i].responses = 1)

\* the timer answered 504 and the provider's answer came afterwards
C30_Witness ==
    \E a \in AskRecords :
        /\ a.timer = "fired" /\ a.provider = "settled"
        /\ a.responses = 1 /\ a.response.status = 504

====
